---- MODULE Spec2Model ----
(***************************************************************************)
(* Model of the multi-tenant GitLab MCP server: the Worker's /mcp boundary *)
(* (credential parsing and validation), the per-call GitLab client with    *)
(* its two shared request executors, the raw-text methods, testConnection, *)
(* and the pagination utilities.                                           *)
(*                                                                         *)
(* JavaScript values are records [jt, n, s]: jt is the type tag, n the     *)
(* numeric payload and s the string payload.  Header texts that the code   *)
(* feeds to parseInt are sequences of one-character strings, so that       *)
(* parseInt is computed character by character as the runtime does.        *)
(***************************************************************************)
EXTENDS Integers, Sequences, FiniteSets, TLC

\* Bounds of the model (not program constants).
MaxHdrLen == 2
MaxItems == 2
MaxPerPageArg == 101
MaxArgLen == 2
MaxCalls == 2
MaxUses == 2

(***************************************************************************)
(* JavaScript values                                                       *)
(***************************************************************************)
Undefined == [jt |-> "undefined", n |-> 0, s |-> ""]
JsNull == [jt |-> "null", n |-> 0, s |-> ""]
NaN == [jt |-> "NaN", n |-> 0, s |-> ""]
Num(k) == [jt |-> "number", n |-> k, s |-> ""]
Str(x) == [jt |-> "string", n |-> 0, s |-> x]
Obj(x) == [jt |-> "object", n |-> 0, s |-> x]
Bool(b) == [jt |-> "boolean", n |-> IF b THEN 1 ELSE 0, s |-> ""]
\* A header text kept as a sequence of characters (an input of parseInt).
Text(cs) == [jt |-> "text", n |-> 0, s |-> cs]

\* JavaScript truthiness, as used by `x ? a : b`, `x || y` and `!x`.
Truthy(v) ==
    CASE v.jt = "undefined" -> FALSE
      [] v.jt = "null" -> FALSE
      [] v.jt = "NaN" -> FALSE
      [] v.jt = "number" -> v.n # 0
      [] v.jt = "boolean" -> v.n # 0
      [] v.jt = "string" -> v.s # ""
      [] v.jt = "text" -> v.s # <<>>
      [] OTHER -> TRUE

(***************************************************************************)
(* parseInt(text, 10): skip leading white space, take an optional sign,    *)
(* then the longest prefix of decimal digits; NaN when there is no digit.  *)
(***************************************************************************)
Digits == {"0", "1", "2", "3", "4", "5", "6", "7", "8", "9"}

DigitVal(c) ==
    CASE c = "0" -> 0 [] c = "1" -> 1 [] c = "2" -> 2 [] c = "3" -> 3
      [] c = "4" -> 4 [] c = "5" -> 5 [] c = "6" -> 6 [] c = "7" -> 7
      [] c = "8" -> 8 [] c = "9" -> 9

RECURSIVE SkipWhiteSpace(_)
SkipWhiteSpace(cs) ==
    IF cs # <<>> /\ Head(cs) = " " THEN SkipWhiteSpace(Tail(cs)) ELSE cs

RECURSIVE DigitPrefix(_)
DigitPrefix(cs) ==
    IF cs # <<>> /\ Head(cs) \in Digits
    THEN <<Head(cs)>> \o DigitPrefix(Tail(cs))
    ELSE <<>>

RECURSIVE DecimalValue(_, _)
DecimalValue(ds, acc) ==
    IF ds = <<>> THEN acc
    ELSE DecimalValue(Tail(ds), acc * 10 + DigitVal(Head(ds)))

parseInt(cs) ==
    LET t == SkipWhiteSpace(cs)
        negative == t # <<>> /\ Head(t) = "-"
        u == IF t # <<>> /\ Head(t) \in {"-", "+"} THEN Tail(t) ELSE t
        ds == DigitPrefix(u)
    IN  IF ds = <<>> THEN NaN
        ELSE Num(IF negative THEN 0 - DecimalValue(ds, 0) ELSE DecimalValue(ds, 0))

(***************************************************************************)
(* Error taxonomy.  The three classes live in utils/errors.js; an error is *)
(* recorded here by its class and by the constructor arguments the client  *)
(* passes.  Error(...) and the built-in TypeError/SyntaxError are the      *)
(* runtime's own.                                                          *)
(***************************************************************************)
NoError == [kind |-> "none", message |-> Undefined, status |-> Undefined,
            retryAfterSeconds |-> Undefined]

AuthenticationError(msg) ==
    [kind |-> "AuthenticationError", message |-> msg, status |-> Undefined,
     retryAfterSeconds |-> Undefined]

RateLimitError(msg, retryAfter) ==
    [kind |-> "RateLimitError", message |-> msg, status |-> Undefined,
     retryAfterSeconds |-> retryAfter]

GitLabApiError(msg, status) ==
    [kind |-> "GitLabApiError", message |-> msg, status |-> Num(status),
     retryAfterSeconds |-> Undefined]

\* new Error(msg), and the errors the runtime itself raises.
JsError(kind, msg) ==
    [kind |-> kind, message |-> Str(msg), status |-> Undefined,
     retryAfterSeconds |-> Undefined]

\* error.message: the Error constructor stores the string form of its argument.
MessageOf(err) ==
    IF err.message.jt = "object" THEN Str("[object Object]") ELSE err.message

(***************************************************************************)
(* Outcome of an async function: pending, returned a value, or thrown.     *)
(***************************************************************************)
Pending == [state |-> "pending", value |-> Undefined, error |-> NoError]
Ret(v) == [state |-> "returned", value |-> v, error |-> NoError]
Throw(e) == [state |-> "thrown", value |-> Undefined, error |-> e]

(***************************************************************************)
(* Upstream responses.  A body is what response.text() yields; `json` says *)
(* whether JSON.parse accepts it, jt is the type of the parsed value, the  *)
(* named fields are the properties the client reads from a parsed object,  *)
(* and items are the elements of a parsed array.                           *)
(***************************************************************************)
Body(json, jt, message, error, username, changes, items) ==
    [json |-> json, jt |-> jt, message |-> message, error |-> error,
     username |-> username, changes |-> changes, items |-> items]

NotJson == Body(FALSE, "none", Undefined, Undefined, Undefined, Undefined, <<>>)
JsonNull == Body(TRUE, "null", Undefined, Undefined, Undefined, Undefined, <<>>)
JsonNumber == Body(TRUE, "number", Undefined, Undefined, Undefined, Undefined, <<>>)
JsonObject(message, error, username, changes) ==
    Body(TRUE, "object", message, error, username, changes, <<>>)
JsonArray(items) ==
    Body(TRUE, "array", Undefined, Undefined, Undefined, Undefined, items)

\* value.name for a parsed JSON value that is neither null nor undefined.
Prop(body, name) ==
    IF body.jt = "object" THEN body[name] ELSE Undefined

\* headers.get(name): null when the header is absent, else its text.
HeaderValues(texts) == {JsNull} \cup {Text(cs) : cs \in texts}

Response(status, retryAfter, xTotal, xTotalPages, xPage, xNextPage, xPerPage, body) ==
    [rejected |-> FALSE, status |-> status, retryAfter |-> retryAfter,
     xTotal |-> xTotal, xTotalPages |-> xTotalPages, xPage |-> xPage,
     xNextPage |-> xNextPage, xPerPage |-> xPerPage, body |-> body]

\* A response that carries no header the client reads.
PlainResponse(status, body) ==
    Response(status, JsNull, JsNull, JsNull, JsNull, JsNull, JsNull, body)

\* The fetch promise rejects: no HTTP status exists.
NetworkFailure == [PlainResponse(0, NotJson) EXCEPT !.rejected = TRUE]

\* response.ok
Ok(status) == status >= 200 /\ status <= 299

(***************************************************************************)
(* Credential resolver (types/env.ts)                                      *)
(***************************************************************************)
\* `x || undefined`
OrUndefined(v) == IF Truthy(v) THEN v ELSE Undefined

InboundHeaders(token, baseUrl, accessToken) ==
    [xGitLabToken |-> token, xGitLabBaseURL |-> baseUrl,
     xGitLabAccessToken |-> accessToken]

TenantCredentials(privateToken, baseUrl, accessToken) ==
    [privateToken |-> privateToken, baseUrl |-> baseUrl,
     accessToken |-> accessToken]

parseTenantCredentials(headers) ==
    TenantCredentials(OrUndefined(headers.xGitLabToken),
                      OrUndefined(headers.xGitLabBaseURL),
                      OrUndefined(headers.xGitLabAccessToken))

\* NoError when the credentials pass, else the error it throws.
validateCredentials(credentials) ==
    IF ~Truthy(credentials.privateToken) /\ ~Truthy(credentials.accessToken)
    THEN JsError("Error",
           "Missing credentials. Provide either X-GitLab-Token or X-GitLab-Access-Token header.")
    ELSE NoError

(***************************************************************************)
(* GitLab client: construction and authentication headers                  *)
(***************************************************************************)
DEFAULT_API_BASE_URL == "https://gitlab.com/api/v4"

NoCredentials == TenantCredentials(Undefined, Undefined, Undefined)

NoClient == [constructed |-> FALSE, credentials |-> NoCredentials,
             baseUrl |-> Undefined]

\* GitLabClientImpl taking the default API root whatever the credentials say.
GitLabClientImpl_DefaultOnly(credentials) ==
    [constructed |-> TRUE, credentials |-> credentials,
     baseUrl |-> Str(DEFAULT_API_BASE_URL)]

GitLabClientImpl(credentials) ==
    [constructed |-> TRUE, credentials |-> credentials,
     baseUrl |-> IF Truthy(credentials.baseUrl) THEN credentials.baseUrl
                 ELSE Str(DEFAULT_API_BASE_URL)]

createGitLabClient(credentials) == GitLabClientImpl(credentials)

AuthHeaders(authorization, privateToken, contentType) ==
    [authorization |-> authorization, privateToken |-> privateToken,
     contentType |-> contentType]

NoHeaders == AuthHeaders(Undefined, Undefined, Undefined)

\* getAuthHeaders returning no authentication header when no token is set.
getAuthHeaders_Anonymous(c) ==
    IF Truthy(c.credentials.accessToken)
    THEN Ret(AuthHeaders(Str("Bearer " \o c.credentials.accessToken.s),
                         Undefined, Str("application/json")))
    ELSE IF Truthy(c.credentials.privateToken)
    THEN Ret(AuthHeaders(Undefined, c.credentials.privateToken,
                         Str("application/json")))
    ELSE Ret(AuthHeaders(Undefined, Undefined, Str("application/json")))

\* getAuthHeaders testing the private token before the bearer token.
getAuthHeaders_PrivateTokenFirst(c) ==
    IF Truthy(c.credentials.privateToken)
    THEN Ret(AuthHeaders(Undefined, c.credentials.privateToken,
                         Str("application/json")))
    ELSE IF Truthy(c.credentials.accessToken)
    THEN Ret(AuthHeaders(Str("Bearer " \o c.credentials.accessToken.s),
                         Undefined, Str("application/json")))
    ELSE Throw(AuthenticationError(Str(
           "No credentials provided. Include X-GitLab-Token or X-GitLab-Access-Token header.")))

getAuthHeaders(c) ==
    IF Truthy(c.credentials.accessToken)
    THEN Ret(AuthHeaders(Str("Bearer " \o c.credentials.accessToken.s),
                         Undefined, Str("application/json")))
    ELSE IF Truthy(c.credentials.privateToken)
    THEN Ret(AuthHeaders(Undefined, c.credentials.privateToken,
                         Str("application/json")))
    ELSE Throw(AuthenticationError(Str(
           "No credentials provided. Include X-GitLab-Token or X-GitLab-Access-Token header.")))

(***************************************************************************)
(* Single-resource executor: GitLabClientImpl.request, from the point      *)
(* where the fetch promise settles.                                        *)
(***************************************************************************)
\* The rejection of fetch propagates out of the awaiting method unchanged.
FetchRejection == JsError("TypeError", "fetch failed")

requestRetryAfter(resp) ==
    IF Truthy(resp.retryAfter) THEN parseInt(resp.retryAfter.s) ELSE Num(60)

\* requestErrorMessage with the `|| errorJson.error` alternative left out.
requestErrorMessage_NoErrorField(resp) ==
    LET fallback == Str("API error: " \o ToString(resp.status))
        errorJson == resp.body
    IN  IF ~errorJson.json THEN fallback
        ELSE IF errorJson.jt = "null" THEN fallback
        ELSE IF Truthy(Prop(errorJson, "message")) THEN Prop(errorJson, "message")
        ELSE fallback

requestErrorMessage(resp) ==
    LET fallback == Str("API error: " \o ToString(resp.status))
        errorJson == resp.body
    IN  IF ~errorJson.json THEN fallback              \* JSON.parse throws
        ELSE IF errorJson.jt = "null" THEN fallback   \* null.message throws
        ELSE IF Truthy(Prop(errorJson, "message")) THEN Prop(errorJson, "message")
        ELSE IF Truthy(Prop(errorJson, "error")) THEN Prop(errorJson, "error")
        ELSE fallback

\* request with the 403 test left out of the authentication branch.
request_Only401(resp) ==
    IF resp.rejected THEN Throw(FetchRejection)
    ELSE IF resp.status = 429
    THEN Throw(RateLimitError(Str("Rate limit exceeded"), requestRetryAfter(resp)))
    ELSE IF resp.status = 401
    THEN Throw(AuthenticationError(
           Str("Authentication failed. Check your GitLab credentials.")))
    ELSE IF ~Ok(resp.status)
    THEN Throw(GitLabApiError(requestErrorMessage(resp), resp.status))
    ELSE IF resp.status = 204 THEN Ret(Undefined)
    ELSE IF ~resp.body.json
    THEN Throw(JsError("SyntaxError", "Unexpected token in JSON"))
    ELSE Ret(resp.body)

request(resp) ==
    IF resp.rejected THEN Throw(FetchRejection)
    ELSE IF resp.status = 429
    THEN Throw(RateLimitError(Str("Rate limit exceeded"), requestRetryAfter(resp)))
    ELSE IF resp.status = 401 \/ resp.status = 403
    THEN Throw(AuthenticationError(
           Str("Authentication failed. Check your GitLab credentials.")))
    ELSE IF ~Ok(resp.status)
    THEN Throw(GitLabApiError(requestErrorMessage(resp), resp.status))
    ELSE IF resp.status = 204 THEN Ret(Undefined)
    ELSE IF ~resp.body.json
    THEN Throw(JsError("SyntaxError", "Unexpected token in JSON"))
    ELSE Ret(resp.body)

(***************************************************************************)
(* Paginated-list executor: GitLabClientImpl.requestWithPagination, from   *)
(* the point where the fetch promise settles.                              *)
(***************************************************************************)
PaginatedResponse(items, count, total, page, totalPages, nextPage, hasMore) ==
    [items |-> items, count |-> count, total |-> total, page |-> page,
     totalPages |-> totalPages, nextPage |-> nextPage, hasMore |-> hasMore]

\* value.length of a parsed JSON value that is neither null nor undefined.
JsLength(body) ==
    IF body.jt = "array" THEN Num(Len(body.items)) ELSE Undefined

paginationRetryAfter(resp) ==
    IF Truthy(resp.retryAfter) THEN parseInt(resp.retryAfter.s) ELSE Num(60)

paginationErrorMessage(resp) ==
    LET fallback == Str("API error: " \o ToString(resp.status))
        errorJson == resp.body
    IN  IF ~errorJson.json THEN fallback
        ELSE IF errorJson.jt = "null" THEN fallback
        ELSE IF Truthy(Prop(errorJson, "message")) THEN Prop(errorJson, "message")
        ELSE IF Truthy(Prop(errorJson, "error")) THEN Prop(errorJson, "error")
        ELSE fallback

\* paginationHeader reading the first character of the header only.
paginationHeader_FirstDigit(h) ==
    IF Truthy(h) THEN parseInt(<<Head(h.s)>>) ELSE Undefined

\* header ? parseInt(header, 10) : undefined
paginationHeader(h) == IF Truthy(h) THEN parseInt(h.s) ELSE Undefined

\* paginationEnvelope with count taken from the X-Total header.
paginationEnvelope_CountFromTotal(resp) ==
    LET items == resp.body
        total == paginationHeader(resp.xTotal)
        totalPages == paginationHeader(resp.xTotalPages)
        nextPage == paginationHeader(resp.xNextPage)
    IN  PaginatedResponse(items, total, total, Undefined, totalPages,
                          nextPage, Bool(nextPage # Undefined))

\* The envelope returned on success; the object literal sets no `page`.
paginationEnvelope(resp) ==
    LET items == resp.body
        total == paginationHeader(resp.xTotal)
        totalPages == paginationHeader(resp.xTotalPages)
        nextPage == paginationHeader(resp.xNextPage)
    IN  PaginatedResponse(items, JsLength(items), total, Undefined, totalPages,
                          nextPage, Bool(nextPage # Undefined))

requestWithPagination(resp) ==
    IF resp.rejected THEN Throw(FetchRejection)
    ELSE IF resp.status = 429
    THEN Throw(RateLimitError(Str("Rate limit exceeded"), paginationRetryAfter(resp)))
    ELSE IF resp.status = 401 \/ resp.status = 403
    THEN Throw(AuthenticationError(
           Str("Authentication failed. Check your GitLab credentials.")))
    ELSE IF ~Ok(resp.status)
    THEN Throw(GitLabApiError(paginationErrorMessage(resp), resp.status))
    ELSE IF ~resp.body.json
    THEN Throw(JsError("SyntaxError", "Unexpected token in JSON"))
    ELSE IF resp.body.jt = "null"
    THEN Throw(JsError("TypeError", "Cannot read properties of null (reading 'length')"))
    ELSE Ret(paginationEnvelope(resp))

(***************************************************************************)
(* Client methods.  Each method builds its URL, awaits one executor (or,   *)
(* for the two raw-text methods, fetch itself) and post-processes the      *)
(* executor's outcome.                                                     *)
(***************************************************************************)
JsonMethods ==
    {"getCurrentUser", "getProject", "createProject", "updateProject",
     "forkProject", "starProject", "unstarProject", "getBranch", "createBranch",
     "getCommit", "createCommit", "getCommitDiff", "cherryPickCommit",
     "revertCommit", "getTag", "createTag", "compareRefs", "getFile",
     "createFile", "updateFile", "getMergeRequest", "createMergeRequest",
     "updateMergeRequest", "acceptMergeRequest", "getIssue", "createIssue",
     "updateIssue", "createIssueNote", "createMergeRequestNote", "getLabel",
     "createLabel", "updateLabel", "getPipeline", "createPipeline",
     "retryPipeline", "cancelPipeline", "getJob", "retryJob", "cancelJob",
     "playJob", "getRelease", "createRelease", "updateRelease", "getGroup",
     "createGroup", "updateGroup", "getUser", "addProjectMember",
     "updateProjectMember", "getProjectVariable", "createProjectVariable",
     "updateProjectVariable", "createProjectWebhook"}

\* `await this.request<void>(...)`: the executor's value is discarded.
VoidMethods ==
    {"deleteProject", "deleteBranch", "deleteMergedBranches", "deleteTag",
     "deleteFile", "approveMergeRequest", "rebaseMergeRequest", "deleteIssue",
     "deleteLabel", "deletePipeline", "deleteRelease", "deleteGroup",
     "removeProjectMember", "deleteProjectVariable", "deleteProjectWebhook"}

ListMethods ==
    {"listProjects", "listBranches", "listCommits", "listTags",
     "getRepositoryTree", "listMergeRequests", "listIssues", "listIssueNotes",
     "listMergeRequestNotes", "listLabels", "listPipelines", "listPipelineJobs",
     "listReleases", "listGroups", "listGroupProjects", "listUsers",
     "listProjectMembers", "listProjectVariables", "listProjectWebhooks",
     "listProjectRunners"}

RawMethods == {"getFileRaw", "getJobLog"}

\* Methods routed through the single-resource executor.
SingleResourceMethods ==
    JsonMethods \cup VoidMethods \cup {"getMergeRequestDiff", "testConnection"}

Methods == SingleResourceMethods \cup ListMethods \cup RawMethods

(***************************************************************************)
(* Outbound URLs.  A URL is kept as a sequence of atoms: a reserved        *)
(* character, a percent escape, or a run of unreserved characters.         *)
(***************************************************************************)
\* String(v) and template-literal interpolation of a value.
JsString(v) ==
    CASE v.jt = "text" -> v.s
      [] v.jt = "string" -> <<v.s>>
      [] v.jt = "number" -> <<ToString(v.n)>>
      [] v.jt = "boolean" -> IF v.n = 1 THEN <<"true">> ELSE <<"false">>
      [] v.jt = "NaN" -> <<"NaN">>
      [] v.jt = "null" -> <<"null">>
      [] OTHER -> <<"undefined">>

\* Characters that encodeURIComponent escapes, with their escapes.
PercentEscape(c) ==
    CASE c = "/" -> "%2F" [] c = "?" -> "%3F" [] c = "&" -> "%26"
      [] c = "=" -> "%3D" [] c = "#" -> "%23" [] c = "%" -> "%25"
      [] c = " " -> "%20" [] OTHER -> c

\* encodeURIComponent leaving every character as it is.
encodeURIComponent_Unescaped(cs) == cs

encodeURIComponent(cs) == [i \in 1..Len(cs) |-> PercentEscape(cs[i])]

\* URLSearchParams serialisation of a name or value: as above, space as "+".
formUrlEncode(cs) ==
    [i \in 1..Len(cs) |-> IF cs[i] = " " THEN "+" ELSE PercentEscape(cs[i])]

UpperCase ==
    {"A", "B", "C", "D", "E", "F", "G", "H", "I", "J", "K", "L", "M", "N", "O",
     "P", "Q", "R", "S", "T", "U", "V", "W", "X", "Y", "Z"}

toLowerCase(c) ==
    CASE c = "A" -> "a" [] c = "B" -> "b" [] c = "C" -> "c" [] c = "D" -> "d"
      [] c = "E" -> "e" [] c = "F" -> "f" [] c = "G" -> "g" [] c = "H" -> "h"
      [] c = "I" -> "i" [] c = "J" -> "j" [] c = "K" -> "k" [] c = "L" -> "l"
      [] c = "M" -> "m" [] c = "N" -> "n" [] c = "O" -> "o" [] c = "P" -> "p"
      [] c = "Q" -> "q" [] c = "R" -> "r" [] c = "S" -> "s" [] c = "T" -> "t"
      [] c = "U" -> "u" [] c = "V" -> "v" [] c = "W" -> "w" [] c = "X" -> "x"
      [] c = "Y" -> "y" [] c = "Z" -> "z" [] OTHER -> c

\* str.replace(/[A-Z]/g, (letter) => `_${letter.toLowerCase()}`)
RECURSIVE toSnakeCase(_)
toSnakeCase(str) ==
    IF str = <<>> THEN <<>>
    ELSE (IF Head(str) \in UpperCase
          THEN <<"_", toLowerCase(Head(str))>>
          ELSE <<Head(str)>>) \o toSnakeCase(Tail(str))

\* The arguments of one method call: the params object (its filter entries in
\* insertion order, perPage and page) and the positional arguments.
Arguments(filters, perPage, page, id, seg, num, ref, from, to) ==
    [filters |-> filters, perPage |-> perPage, page |-> page, id |-> id,
     seg |-> seg, num |-> num, ref |-> ref, from |-> from, to |-> to]

PerPageKey == <<"p", "e", "r", "P", "a", "g", "e">>
PageKey == <<"p", "a", "g", "e">>

\* Object.entries(params)
Entries(p) ==
    p.filters \o <<[key |-> PerPageKey, value |-> p.perPage],
                   [key |-> PageKey, value |-> p.page]>>

\* queryParams.set(name, value): a parameter already set keeps its place and
\* takes the new value; a new one goes last.
SearchParamsSet(queryParams, name, value) ==
    IF \E i \in 1..Len(queryParams) : queryParams[i].key = name
    THEN [i \in 1..Len(queryParams) |->
            IF queryParams[i].key = name
            THEN [key |-> name, value |-> value] ELSE queryParams[i]]
    ELSE Append(queryParams, [key |-> name, value |-> value])

\* QueryParams skipping every falsy value (`if (value && ...)`).
RECURSIVE QueryParams_SkipsFalsy(_, _)
QueryParams_SkipsFalsy(es, queryParams) ==
    IF es = <<>> THEN queryParams
    ELSE QueryParams_SkipsFalsy(Tail(es),
           IF /\ Truthy(Head(es).value)
              /\ Head(es).key # PerPageKey
              /\ Head(es).key # PageKey
           THEN SearchParamsSet(queryParams, toSnakeCase(Head(es).key),
                                JsString(Head(es).value))
           ELSE queryParams)

\* The loop over the entries: undefined and null values and the two
\* pagination fields are skipped.
RECURSIVE QueryParams(_, _)
QueryParams(es, queryParams) ==
    IF es = <<>> THEN queryParams
    ELSE QueryParams(Tail(es),
           IF /\ Head(es).value.jt \notin {"undefined", "null"}
              /\ Head(es).key # PerPageKey
              /\ Head(es).key # PageKey
           THEN SearchParamsSet(queryParams, toSnakeCase(Head(es).key),
                                JsString(Head(es).value))
           ELSE queryParams)

\* queryParams.toString()
RECURSIVE SerializeEntries(_)
SerializeEntries(es) ==
    IF es = <<>> THEN <<>>
    ELSE formUrlEncode(es[1].key) \o <<"=">> \o formUrlEncode(es[1].value)
         \o (IF Len(es) > 1 THEN <<"&">> \o SerializeEntries(Tail(es)) ELSE <<>>)

buildQueryString(p) == SerializeEntries(QueryParams(Entries(p), <<>>))

\* ${query ? `?${query}` : ''}
QuerySuffix(query) == IF query # <<>> THEN <<"?">> \o query ELSE <<>>

\* The endpoint each method hands to its executor (or, for the raw-text
\* methods, appends to the base URL itself).
endpoint(m, p) ==
    CASE m \in {"getCurrentUser", "testConnection"} ->
           <<"/", "user">>
      [] m \in {"listProjects"} ->
           <<"/", "projects">> \o QuerySuffix(buildQueryString(p))
      [] m \in {"getProject", "updateProject", "deleteProject"} ->
           <<"/", "projects", "/">> \o encodeURIComponent(JsString(p.id))
      [] m \in {"createProject"} ->
           <<"/", "projects">>
      [] m \in {"forkProject"} ->
           <<"/", "projects", "/">> \o encodeURIComponent(JsString(p.id)) \o
             <<"/", "fork">>
      [] m \in {"starProject"} ->
           <<"/", "projects", "/">> \o encodeURIComponent(JsString(p.id)) \o
             <<"/", "star">>
      [] m \in {"unstarProject"} ->
           <<"/", "projects", "/">> \o encodeURIComponent(JsString(p.id)) \o
             <<"/", "unstar">>
      [] m \in {"listBranches"} ->
           <<"/", "projects", "/">> \o encodeURIComponent(JsString(p.id)) \o
             <<"/", "repository", "/", "branches">> \o
             QuerySuffix(buildQueryString(p))
      [] m \in {"getBranch", "deleteBranch"} ->
           <<"/", "projects", "/">> \o encodeURIComponent(JsString(p.id)) \o
             <<"/", "repository", "/", "branches", "/">> \o
             encodeURIComponent(JsString(p.seg))
      [] m \in {"createBranch"} ->
           <<"/", "projects", "/">> \o encodeURIComponent(JsString(p.id)) \o
             <<"/", "repository", "/", "branches">>
      [] m \in {"deleteMergedBranches"} ->
           <<"/", "projects", "/">> \o encodeURIComponent(JsString(p.id)) \o
             <<"/", "repository", "/", "merged_branches">>
      [] m \in {"listCommits"} ->
           <<"/", "projects", "/">> \o encodeURIComponent(JsString(p.id)) \o
             <<"/", "repository", "/", "commits">> \o
             QuerySuffix(buildQueryString(p))
      [] m \in {"getCommit"} ->
           <<"/", "projects", "/">> \o encodeURIComponent(JsString(p.id)) \o
             <<"/", "repository", "/", "commits", "/">> \o JsString(p.seg)
      [] m \in {"createCommit"} ->
           <<"/", "projects", "/">> \o encodeURIComponent(JsString(p.id)) \o
             <<"/", "repository", "/", "commits">>
      [] m \in {"getCommitDiff"} ->
           <<"/", "projects", "/">> \o encodeURIComponent(JsString(p.id)) \o
             <<"/", "repository", "/", "commits", "/">> \o JsString(p.seg) \o
             <<"/", "diff">>
      [] m \in {"cherryPickCommit"} ->
           <<"/", "projects", "/">> \o encodeURIComponent(JsString(p.id)) \o
             <<"/", "repository", "/", "commits", "/">> \o JsString(p.seg) \o
             <<"/", "cherry_pick">>
      [] m \in {"revertCommit"} ->
           <<"/", "projects", "/">> \o encodeURIComponent(JsString(p.id)) \o
             <<"/", "repository", "/", "commits", "/">> \o JsString(p.seg) \o
             <<"/", "revert">>
      [] m \in {"listTags"} ->
           <<"/", "projects", "/">> \o encodeURIComponent(JsString(p.id)) \o
             <<"/", "repository", "/", "tags">> \o
             QuerySuffix(buildQueryString(p))
      [] m \in {"getTag", "deleteTag"} ->
           <<"/", "projects", "/">> \o encodeURIComponent(JsString(p.id)) \o
             <<"/", "repository", "/", "tags", "/">> \o
             encodeURIComponent(JsString(p.seg))
      [] m \in {"createTag"} ->
           <<"/", "projects", "/">> \o encodeURIComponent(JsString(p.id)) \o
             <<"/", "repository", "/", "tags">>
      [] m \in {"getRepositoryTree"} ->
           <<"/", "projects", "/">> \o encodeURIComponent(JsString(p.id)) \o
             <<"/", "repository", "/", "tree">> \o
             QuerySuffix(buildQueryString(p))
      [] m \in {"compareRefs"} ->
           <<"/", "projects", "/">> \o encodeURIComponent(JsString(p.id)) \o
             <<"/", "repository", "/", "compare", "?", "from", "=">> \o
             encodeURIComponent(JsString(p.from)) \o <<"&", "to", "=">> \o
             encodeURIComponent(JsString(p.to))
      [] m \in {"getFile"} ->
           <<"/", "projects", "/">> \o encodeURIComponent(JsString(p.id)) \o
             <<"/", "repository", "/", "files", "/">> \o
             encodeURIComponent(JsString(p.seg)) \o <<"?", "ref", "=">> \o
             encodeURIComponent(JsString(p.ref))
      [] m \in {"getFileRaw"} ->
           <<"/", "projects", "/">> \o encodeURIComponent(JsString(p.id)) \o
             <<"/", "repository", "/", "files", "/">> \o
             encodeURIComponent(JsString(p.seg)) \o
             <<"/", "raw", "?", "ref", "=">> \o
             encodeURIComponent(JsString(p.ref))
      [] m \in {"createFile", "updateFile", "deleteFile"} ->
           <<"/", "projects", "/">> \o encodeURIComponent(JsString(p.id)) \o
             <<"/", "repository", "/", "files", "/">> \o
             encodeURIComponent(JsString(p.seg))
      [] m \in {"listMergeRequests"} ->
           <<"/", "projects", "/">> \o encodeURIComponent(JsString(p.id)) \o
             <<"/", "merge_requests">> \o QuerySuffix(buildQueryString(p))
      [] m \in {"getMergeRequest", "updateMergeRequest"} ->
           <<"/", "projects", "/">> \o encodeURIComponent(JsString(p.id)) \o
             <<"/", "merge_requests", "/">> \o JsString(p.num)
      [] m \in {"createMergeRequest"} ->
           <<"/", "projects", "/">> \o encodeURIComponent(JsString(p.id)) \o
             <<"/", "merge_requests">>
      [] m \in {"acceptMergeRequest"} ->
           <<"/", "projects", "/">> \o encodeURIComponent(JsString(p.id)) \o
             <<"/", "merge_requests", "/">> \o JsString(p.num) \o
             <<"/", "merge">>
      [] m \in {"approveMergeRequest"} ->
           <<"/", "projects", "/">> \o encodeURIComponent(JsString(p.id)) \o
             <<"/", "merge_requests", "/">> \o JsString(p.num) \o
             <<"/", "approve">>
      [] m \in {"rebaseMergeRequest"} ->
           <<"/", "projects", "/">> \o encodeURIComponent(JsString(p.id)) \o
             <<"/", "merge_requests", "/">> \o JsString(p.num) \o
             <<"/", "rebase">>
      [] m \in {"getMergeRequestDiff"} ->
           <<"/", "projects", "/">> \o encodeURIComponent(JsString(p.id)) \o
             <<"/", "merge_requests", "/">> \o JsString(p.num) \o
             <<"/", "changes">>
      [] m \in {"listIssues"} ->
           <<"/", "projects", "/">> \o encodeURIComponent(JsString(p.id)) \o
             <<"/", "issues">> \o QuerySuffix(buildQueryString(p))
      [] m \in {"getIssue", "updateIssue", "deleteIssue"} ->
           <<"/", "projects", "/">> \o encodeURIComponent(JsString(p.id)) \o
             <<"/", "issues", "/">> \o JsString(p.num)
      [] m \in {"createIssue"} ->
           <<"/", "projects", "/">> \o encodeURIComponent(JsString(p.id)) \o
             <<"/", "issues">>
      [] m \in {"listIssueNotes", "createIssueNote"} ->
           <<"/", "projects", "/">> \o encodeURIComponent(JsString(p.id)) \o
             <<"/", "issues", "/">> \o JsString(p.num) \o <<"/", "notes">>
      [] m \in {"listMergeRequestNotes", "createMergeRequestNote"} ->
           <<"/", "projects", "/">> \o encodeURIComponent(JsString(p.id)) \o
             <<"/", "merge_requests", "/">> \o JsString(p.num) \o
             <<"/", "notes">>
      [] m \in {"listLabels"} ->
           <<"/", "projects", "/">> \o encodeURIComponent(JsString(p.id)) \o
             <<"/", "labels">> \o QuerySuffix(buildQueryString(p))
      [] m \in {"getLabel", "updateLabel", "deleteLabel"} ->
           <<"/", "projects", "/">> \o encodeURIComponent(JsString(p.id)) \o
             <<"/", "labels", "/">> \o encodeURIComponent(JsString(p.seg))
      [] m \in {"createLabel"} ->
           <<"/", "projects", "/">> \o encodeURIComponent(JsString(p.id)) \o
             <<"/", "labels">>
      [] m \in {"listPipelines"} ->
           <<"/", "projects", "/">> \o encodeURIComponent(JsString(p.id)) \o
             <<"/", "pipelines">> \o QuerySuffix(buildQueryString(p))
      [] m \in {"getPipeline", "deletePipeline"} ->
           <<"/", "projects", "/">> \o encodeURIComponent(JsString(p.id)) \o
             <<"/", "pipelines", "/">> \o JsString(p.num)
      [] m \in {"createPipeline"} ->
           <<"/", "projects", "/">> \o encodeURIComponent(JsString(p.id)) \o
             <<"/", "pipeline">>
      [] m \in {"retryPipeline"} ->
           <<"/", "projects", "/">> \o encodeURIComponent(JsString(p.id)) \o
             <<"/", "pipelines", "/">> \o JsString(p.num) \o <<"/", "retry">>
      [] m \in {"cancelPipeline"} ->
           <<"/", "projects", "/">> \o encodeURIComponent(JsString(p.id)) \o
             <<"/", "pipelines", "/">> \o JsString(p.num) \o <<"/", "cancel">>
      [] m \in {"listPipelineJobs"} ->
           <<"/", "projects", "/">> \o encodeURIComponent(JsString(p.id)) \o
             <<"/", "pipelines", "/">> \o JsString(p.num) \o <<"/", "jobs">> \o
             QuerySuffix(buildQueryString(p))
      [] m \in {"getJob"} ->
           <<"/", "projects", "/">> \o encodeURIComponent(JsString(p.id)) \o
             <<"/", "jobs", "/">> \o JsString(p.num)
      [] m \in {"getJobLog"} ->
           <<"/", "projects", "/">> \o encodeURIComponent(JsString(p.id)) \o
             <<"/", "jobs", "/">> \o JsString(p.num) \o <<"/", "trace">>
      [] m \in {"retryJob"} ->
           <<"/", "projects", "/">> \o encodeURIComponent(JsString(p.id)) \o
             <<"/", "jobs", "/">> \o JsString(p.num) \o <<"/", "retry">>
      [] m \in {"cancelJob"} ->
           <<"/", "projects", "/">> \o encodeURIComponent(JsString(p.id)) \o
             <<"/", "jobs", "/">> \o JsString(p.num) \o <<"/", "cancel">>
      [] m \in {"playJob"} ->
           <<"/", "projects", "/">> \o encodeURIComponent(JsString(p.id)) \o
             <<"/", "jobs", "/">> \o JsString(p.num) \o <<"/", "play">>
      [] m \in {"listReleases", "createRelease"} ->
           <<"/", "projects", "/">> \o encodeURIComponent(JsString(p.id)) \o
             <<"/", "releases">>
      [] m \in {"getRelease", "updateRelease", "deleteRelease"} ->
           <<"/", "projects", "/">> \o encodeURIComponent(JsString(p.id)) \o
             <<"/", "releases", "/">> \o encodeURIComponent(JsString(p.seg))
      [] m \in {"listGroups"} ->
           <<"/", "groups">> \o QuerySuffix(buildQueryString(p))
      [] m \in {"getGroup", "updateGroup", "deleteGroup"} ->
           <<"/", "groups", "/">> \o encodeURIComponent(JsString(p.id))
      [] m \in {"createGroup"} ->
           <<"/", "groups">>
      [] m \in {"listGroupProjects"} ->
           <<"/", "groups", "/">> \o encodeURIComponent(JsString(p.id)) \o
             <<"/", "projects">> \o QuerySuffix(buildQueryString(p))
      [] m \in {"listUsers"} ->
           <<"/", "users">> \o QuerySuffix(buildQueryString(p))
      [] m \in {"getUser"} ->
           <<"/", "users", "/">> \o JsString(p.num)
      [] m \in {"listProjectMembers"} ->
           <<"/", "projects", "/">> \o encodeURIComponent(JsString(p.id)) \o
             <<"/", "members">> \o QuerySuffix(buildQueryString(p))
      [] m \in {"addProjectMember"} ->
           <<"/", "projects", "/">> \o encodeURIComponent(JsString(p.id)) \o
             <<"/", "members">>
      [] m \in {"updateProjectMember", "removeProjectMember"} ->
           <<"/", "projects", "/">> \o encodeURIComponent(JsString(p.id)) \o
             <<"/", "members", "/">> \o JsString(p.num)
      [] m \in {"listProjectVariables", "createProjectVariable"} ->
           <<"/", "projects", "/">> \o encodeURIComponent(JsString(p.id)) \o
             <<"/", "variables">>
      [] m \in {"getProjectVariable", "updateProjectVariable",
                "deleteProjectVariable"} ->
           <<"/", "projects", "/">> \o encodeURIComponent(JsString(p.id)) \o
             <<"/", "variables", "/">> \o encodeURIComponent(JsString(p.seg))
      [] m \in {"listProjectWebhooks", "createProjectWebhook"} ->
           <<"/", "projects", "/">> \o encodeURIComponent(JsString(p.id)) \o
             <<"/", "hooks">>
      [] m \in {"deleteProjectWebhook"} ->
           <<"/", "projects", "/">> \o encodeURIComponent(JsString(p.id)) \o
             <<"/", "hooks", "/">> \o JsString(p.num)
      [] m \in {"listProjectRunners"} ->
           <<"/", "projects", "/">> \o encodeURIComponent(JsString(p.id)) \o
             <<"/", "runners">> \o QuerySuffix(buildQueryString(p))

\* Methods that take a project or group identifier.
IdentifierMethods ==
    {"getProject", "updateProject", "deleteProject", "forkProject",
     "starProject", "unstarProject", "listBranches", "getBranch",
     "createBranch", "deleteBranch", "deleteMergedBranches", "listCommits",
     "getCommit", "createCommit", "getCommitDiff", "cherryPickCommit",
     "revertCommit", "listTags", "getTag", "createTag", "deleteTag",
     "getRepositoryTree", "compareRefs", "getFile", "getFileRaw",
     "createFile", "updateFile", "deleteFile", "listMergeRequests",
     "getMergeRequest", "createMergeRequest", "updateMergeRequest",
     "acceptMergeRequest", "approveMergeRequest", "rebaseMergeRequest",
     "getMergeRequestDiff", "listIssues", "getIssue", "createIssue",
     "updateIssue", "deleteIssue", "listIssueNotes", "createIssueNote",
     "listMergeRequestNotes", "createMergeRequestNote", "listLabels",
     "getLabel", "createLabel", "updateLabel", "deleteLabel",
     "listPipelines", "getPipeline", "createPipeline", "retryPipeline",
     "cancelPipeline", "deletePipeline", "listPipelineJobs", "getJob",
     "getJobLog", "retryJob", "cancelJob", "playJob", "listReleases",
     "getRelease", "createRelease", "updateRelease", "deleteRelease",
     "getGroup", "updateGroup", "deleteGroup", "listGroupProjects",
     "listProjectMembers", "addProjectMember", "updateProjectMember",
     "removeProjectMember", "listProjectVariables", "getProjectVariable",
     "createProjectVariable", "updateProjectVariable",
     "deleteProjectVariable", "listProjectWebhooks",
     "createProjectWebhook", "deleteProjectWebhook", "listProjectRunners"}

\* endpoint.includes('?')
Includes(cs, atom) == \E i \in 1..Len(cs) : cs[i] = atom

\* The query string requestWithPagination builds from perPage and page.
paginationQuery(p) ==
    LET perPage == IF Truthy(p.perPage)
                   THEN <<"per_page", "=">> \o formUrlEncode(JsString(p.perPage))
                   ELSE <<>>
        page == IF Truthy(p.page)
                THEN <<"page", "=">> \o formUrlEncode(JsString(p.page))
                ELSE <<>>
    IN  IF perPage # <<>> /\ page # <<>> THEN perPage \o <<"&">> \o page
        ELSE perPage \o page

\* requestUrl joining the pagination parameters with "?" whatever the endpoint
\* holds.
requestUrl_AlwaysQuestionMark(m, p) ==
    IF m \in ListMethods
    THEN LET queryString == paginationQuery(p)
         IN  endpoint(m, p)
             \o (IF queryString # <<>> THEN <<"?">> \o queryString ELSE <<>>)
    ELSE endpoint(m, p)

\* What follows the base URL in the URL handed to fetch.
requestUrl(m, p) ==
    IF m \in ListMethods
    THEN LET separator == IF Includes(endpoint(m, p), "?") THEN "&" ELSE "?"
             queryString == paginationQuery(p)
         IN  endpoint(m, p)
             \o (IF queryString # <<>> THEN <<separator>> \o queryString ELSE <<>>)
    ELSE endpoint(m, p)

\* response.text(): the body, unparsed.
RawText(body) == [jt |-> "rawtext", body |-> body]

\* getFileRaw going through the single-resource executor and its JSON parsing.
getFileRaw_ThroughRequest(resp) == request(resp)

getFileRaw(resp) ==
    IF resp.rejected THEN Throw(FetchRejection)
    ELSE IF ~Ok(resp.status)
    THEN Throw(GitLabApiError(Str("Failed to get file: " \o ToString(resp.status)),
                              resp.status))
    ELSE Ret(RawText(resp.body))

getJobLog(resp) ==
    IF resp.rejected THEN Throw(FetchRejection)
    ELSE IF ~Ok(resp.status)
    THEN Throw(GitLabApiError(Str("Failed to get job log: " \o ToString(resp.status)),
                              resp.status))
    ELSE Ret(RawText(resp.body))

\* What the method's own fetch or executor call settles to.
ExecutorOutcome(m, resp) ==
    IF m \in ListMethods THEN requestWithPagination(resp)
    ELSE IF m = "getFileRaw" THEN getFileRaw(resp)
    ELSE IF m = "getJobLog" THEN getJobLog(resp)
    ELSE request(resp)

\* `${value}` in a template literal.
TemplateString(v) ==
    CASE v.jt = "string" -> v.s
      [] v.jt = "undefined" -> "undefined"
      [] v.jt = "null" -> "null"
      [] OTHER -> "[object Object]"

\* `error instanceof Error`: every class the client can see is an Error.
ErrorClasses ==
    {"Error", "TypeError", "SyntaxError", "AuthenticationError",
     "RateLimitError", "GitLabApiError"}

ConnectionResult(connected, message, user) ==
    [jt |-> "connection", connected |-> connected, message |-> message,
     user |-> user]

\* testConnection without its try/catch: a failure of getCurrentUser escapes.
testConnection_NoCatch(user) ==
    IF user.state = "thrown" THEN user
    ELSE IF user.value.jt \in {"undefined", "null"}
    THEN Throw(JsError("TypeError",
           "Cannot read properties of undefined (reading 'username')"))
    ELSE Ret(ConnectionResult(TRUE,
               Str("Connected as " \o TemplateString(Prop(user.value, "username"))),
               user.value))

\* testConnection, given what `await this.getCurrentUser()` settled to.
testConnection(user) ==
    LET caught ==
            IF user.state = "thrown" THEN user.error
            ELSE JsError("TypeError",
                   "Cannot read properties of undefined (reading 'username')")
        throws == user.state = "thrown" \/ user.value.jt \in {"undefined", "null"}
    IN  IF throws
        THEN Ret(ConnectionResult(FALSE,
                   IF caught.kind \in ErrorClasses THEN MessageOf(caught)
                   ELSE Str("Connection failed"),
                   Undefined))
        ELSE Ret(ConnectionResult(TRUE,
                   Str("Connected as " \o TemplateString(Prop(user.value, "username"))),
                   user.value))

\* getMergeRequestDiff, given what `await this.request(...)` settled to.
getMergeRequestDiff(response) ==
    IF response.state = "thrown" THEN response
    ELSE IF response.value.jt \in {"undefined", "null"}
    THEN Throw(JsError("TypeError",
           "Cannot read properties of undefined (reading 'changes')"))
    ELSE Ret(Prop(response.value, "changes"))

\* voidMethod resolving also when the executor threw.
voidMethod_SwallowsErrors(response) == Ret(Undefined)

\* A method declared Promise<void>: `await this.request<void>(...)`.
voidMethod(response) ==
    IF response.state = "thrown" THEN response ELSE Ret(Undefined)

\* The method's own outcome, from its executor's outcome.
MethodOutcome(m, inner) ==
    IF m = "testConnection" THEN testConnection(inner)
    ELSE IF m = "getMergeRequestDiff" THEN getMergeRequestDiff(inner)
    ELSE IF m \in VoidMethods THEN voidMethod(inner)
    ELSE inner

(***************************************************************************)
(* Pagination utilities (utils/pagination.ts)                              *)
(***************************************************************************)
PAGINATION_DEFAULTS == [perPage |-> 20, maxPerPage |-> 100]

\* Math.min of two values: NaN unless both are numbers.
MathMin(a, b) ==
    IF a.jt # "number" \/ b.jt # "number" THEN NaN
    ELSE Num(IF a.n < b.n THEN a.n ELSE b.n)

\* params?.perPage and params?.page of a params argument that may be omitted.
OptionalField(params, name) ==
    IF "jt" \in DOMAIN params THEN Undefined
    ELSE IF name = "perPage" THEN params.perPage ELSE params.page

\* normalizePaginationParams without the Math.min against the ceiling.
normalizePaginationParams_NoClamp(params, maxPerPage) ==
    LET requested == OptionalField(params, "perPage")
    IN  [perPage |-> IF Truthy(requested) THEN requested
                     ELSE Num(PAGINATION_DEFAULTS.perPage),
         page |-> OptionalField(params, "page")]

\* normalizePaginationParams raising a page below 1 to 1.
normalizePaginationParams_PageAtLeastOne(params, maxPerPage) ==
    LET ceiling == IF maxPerPage = Undefined
                   THEN Num(PAGINATION_DEFAULTS.maxPerPage)
                   ELSE maxPerPage
        requested == OptionalField(params, "perPage")
        page == OptionalField(params, "page")
    IN  [perPage |-> MathMin(IF Truthy(requested) THEN requested
                             ELSE Num(PAGINATION_DEFAULTS.perPage),
                             ceiling),
         page |-> IF page.jt = "number" /\ page.n < 1 THEN Num(1) ELSE page]

\* maxPerPage takes its default when the argument is omitted (undefined).
normalizePaginationParams(params, maxPerPage) ==
    LET ceiling == IF maxPerPage = Undefined
                   THEN Num(PAGINATION_DEFAULTS.maxPerPage)
                   ELSE maxPerPage
        requested == OptionalField(params, "perPage")
    IN  [perPage |-> MathMin(IF Truthy(requested) THEN requested
                             ELSE Num(PAGINATION_DEFAULTS.perPage),
                             ceiling),
         page |-> OptionalField(params, "page")]

PaginationOptions(total, page, totalPages, nextPage, hasMore) ==
    [total |-> total, page |-> page, totalPages |-> totalPages,
     nextPage |-> nextPage, hasMore |-> hasMore]

\* emptyPaginatedResponse with the count property left out.
emptyPaginatedResponse_NoCount ==
    PaginatedResponse(JsonArray(<<>>), Undefined, Undefined, Undefined,
                      Undefined, Undefined, Bool(FALSE))

\* The object literal sets items, count and hasMore only.
emptyPaginatedResponse ==
    PaginatedResponse(JsonArray(<<>>), Num(0), Undefined, Undefined, Undefined,
                      Undefined, Bool(FALSE))

\* createPaginatedResponse with `||` in place of `??`.
createPaginatedResponse_OrForNullish(items, options) ==
    PaginatedResponse(items, JsLength(items), options.total, options.page,
                      options.totalPages, options.nextPage,
                      IF Truthy(options.hasMore)
                      THEN options.hasMore
                      ELSE Bool(options.nextPage # Undefined))

createPaginatedResponse(items, options) ==
    PaginatedResponse(items, JsLength(items), options.total, options.page,
                      options.totalPages, options.nextPage,
                      IF options.hasMore.jt \in {"undefined", "null"}
                      THEN Bool(options.nextPage # Undefined)
                      ELSE options.hasMore)

PaginationHeaders(total, totalPages, page, nextPage, perPage) ==
    [total |-> total, totalPages |-> totalPages, page |-> page,
     nextPage |-> nextPage, perPage |-> perPage]

\* h ? parseInt(h, 10) : undefined
parseHeaderField(h) == IF Truthy(h) THEN parseInt(h.s) ELSE Undefined

parseGitLabPaginationHeaders(resp) ==
    PaginationHeaders(parseHeaderField(resp.xTotal),
                      parseHeaderField(resp.xTotalPages),
                      parseHeaderField(resp.xPage),
                      parseHeaderField(resp.xNextPage),
                      parseHeaderField(resp.xPerPage))

(***************************************************************************)
(* Tool dispatch: each handler's switch from tool name to the one client   *)
(* method it calls; the default branch throws "Unknown ... tool".          *)
(***************************************************************************)
UnknownTool == "unknown"

handleUserTool(toolName) ==
    CASE toolName = "gitlab_test_connection" -> "testConnection"
      [] toolName = "gitlab_get_current_user" -> "getCurrentUser"
      [] toolName = "gitlab_list_users" -> "listUsers"
      [] toolName = "gitlab_get_user" -> "getUser"
      [] OTHER -> UnknownTool

handleProjectTool(toolName) ==
    CASE toolName = "gitlab_list_projects" -> "listProjects"
      [] toolName = "gitlab_get_project" -> "getProject"
      [] toolName = "gitlab_create_project" -> "createProject"
      [] toolName = "gitlab_update_project" -> "updateProject"
      [] toolName = "gitlab_delete_project" -> "deleteProject"
      [] toolName = "gitlab_fork_project" -> "forkProject"
      [] toolName = "gitlab_star_project" -> "starProject"
      [] toolName = "gitlab_unstar_project" -> "unstarProject"
      [] OTHER -> UnknownTool

handleRepositoryTool(toolName) ==
    CASE toolName = "gitlab_list_branches" -> "listBranches"
      [] toolName = "gitlab_get_branch" -> "getBranch"
      [] toolName = "gitlab_create_branch" -> "createBranch"
      [] toolName = "gitlab_delete_branch" -> "deleteBranch"
      [] toolName = "gitlab_list_commits" -> "listCommits"
      [] toolName = "gitlab_get_commit" -> "getCommit"
      [] toolName = "gitlab_create_commit" -> "createCommit"
      [] toolName = "gitlab_get_commit_diff" -> "getCommitDiff"
      [] toolName = "gitlab_cherry_pick_commit" -> "cherryPickCommit"
      [] toolName = "gitlab_revert_commit" -> "revertCommit"
      [] toolName = "gitlab_list_tags" -> "listTags"
      [] toolName = "gitlab_get_tag" -> "getTag"
      [] toolName = "gitlab_create_tag" -> "createTag"
      [] toolName = "gitlab_delete_tag" -> "deleteTag"
      [] toolName = "gitlab_get_repository_tree" -> "getRepositoryTree"
      [] toolName = "gitlab_compare_refs" -> "compareRefs"
      [] toolName = "gitlab_get_file" -> "getFile"
      [] toolName = "gitlab_get_file_raw" -> "getFileRaw"
      [] toolName = "gitlab_create_file" -> "createFile"
      [] toolName = "gitlab_update_file" -> "updateFile"
      [] toolName = "gitlab_delete_file" -> "deleteFile"
      [] OTHER -> UnknownTool

handleMergeRequestTool(toolName) ==
    CASE toolName = "gitlab_list_merge_requests" -> "listMergeRequests"
      [] toolName = "gitlab_get_merge_request" -> "getMergeRequest"
      [] toolName = "gitlab_create_merge_request" -> "createMergeRequest"
      [] toolName = "gitlab_update_merge_request" -> "updateMergeRequest"
      [] toolName = "gitlab_accept_merge_request" -> "acceptMergeRequest"
      [] toolName = "gitlab_approve_merge_request" -> "approveMergeRequest"
      [] toolName = "gitlab_rebase_merge_request" -> "rebaseMergeRequest"
      [] toolName = "gitlab_get_merge_request_diff" -> "getMergeRequestDiff"
      [] OTHER -> UnknownTool

handleIssueTool(toolName) ==
    CASE toolName = "gitlab_list_issues" -> "listIssues"
      [] toolName = "gitlab_get_issue" -> "getIssue"
      [] toolName = "gitlab_create_issue" -> "createIssue"
      [] toolName = "gitlab_update_issue" -> "updateIssue"
      [] toolName = "gitlab_delete_issue" -> "deleteIssue"
      [] toolName = "gitlab_list_issue_notes" -> "listIssueNotes"
      [] toolName = "gitlab_create_issue_note" -> "createIssueNote"
      [] OTHER -> UnknownTool

handlePipelineTool(toolName) ==
    CASE toolName = "gitlab_list_pipelines" -> "listPipelines"
      [] toolName = "gitlab_get_pipeline" -> "getPipeline"
      [] toolName = "gitlab_create_pipeline" -> "createPipeline"
      [] toolName = "gitlab_retry_pipeline" -> "retryPipeline"
      [] toolName = "gitlab_cancel_pipeline" -> "cancelPipeline"
      [] toolName = "gitlab_delete_pipeline" -> "deletePipeline"
      [] toolName = "gitlab_list_pipeline_jobs" -> "listPipelineJobs"
      [] toolName = "gitlab_get_job" -> "getJob"
      [] toolName = "gitlab_get_job_log" -> "getJobLog"
      [] toolName = "gitlab_retry_job" -> "retryJob"
      [] toolName = "gitlab_cancel_job" -> "cancelJob"
      [] toolName = "gitlab_play_job" -> "playJob"
      [] OTHER -> UnknownTool

handleGroupTool(toolName) ==
    CASE toolName = "gitlab_list_groups" -> "listGroups"
      [] toolName = "gitlab_get_group" -> "getGroup"
      [] toolName = "gitlab_create_group" -> "createGroup"
      [] toolName = "gitlab_update_group" -> "updateGroup"
      [] toolName = "gitlab_delete_group" -> "deleteGroup"
      [] toolName = "gitlab_list_group_projects" -> "listGroupProjects"
      [] OTHER -> UnknownTool

\* server.tool(name, ...) registrations, by the handler each one calls.
UserToolNames ==
    {"gitlab_test_connection", "gitlab_get_current_user",
     "gitlab_list_users", "gitlab_get_user"}

ProjectToolNames ==
    {"gitlab_list_projects", "gitlab_get_project", "gitlab_create_project",
     "gitlab_update_project", "gitlab_delete_project", "gitlab_fork_project",
     "gitlab_star_project", "gitlab_unstar_project"}

RepositoryToolNames ==
    {"gitlab_list_branches", "gitlab_get_branch", "gitlab_create_branch",
     "gitlab_delete_branch", "gitlab_delete_merged_branches",
     "gitlab_list_commits", "gitlab_get_commit", "gitlab_create_commit",
     "gitlab_get_commit_diff", "gitlab_cherry_pick_commit",
     "gitlab_revert_commit", "gitlab_list_tags", "gitlab_get_tag",
     "gitlab_create_tag", "gitlab_delete_tag", "gitlab_get_repository_tree",
     "gitlab_compare_refs", "gitlab_get_file", "gitlab_get_file_raw",
     "gitlab_create_file", "gitlab_update_file", "gitlab_delete_file"}

MergeRequestToolNames ==
    {"gitlab_list_merge_requests", "gitlab_get_merge_request",
     "gitlab_create_merge_request", "gitlab_update_merge_request",
     "gitlab_accept_merge_request", "gitlab_approve_merge_request",
     "gitlab_rebase_merge_request", "gitlab_get_merge_request_diff"}

IssueToolNames ==
    {"gitlab_list_issues", "gitlab_get_issue", "gitlab_create_issue",
     "gitlab_update_issue", "gitlab_delete_issue", "gitlab_list_issue_notes",
     "gitlab_create_issue_note"}

PipelineToolNames ==
    {"gitlab_list_pipelines", "gitlab_get_pipeline",
     "gitlab_create_pipeline", "gitlab_retry_pipeline",
     "gitlab_cancel_pipeline", "gitlab_delete_pipeline",
     "gitlab_list_pipeline_jobs", "gitlab_get_job", "gitlab_get_job_log",
     "gitlab_retry_job", "gitlab_cancel_job", "gitlab_play_job"}

GroupToolNames ==
    {"gitlab_list_groups", "gitlab_get_group", "gitlab_create_group",
     "gitlab_update_group", "gitlab_delete_group",
     "gitlab_list_group_projects"}

RegisteredTools ==
    UserToolNames \cup ProjectToolNames \cup RepositoryToolNames
    \cup MergeRequestToolNames \cup IssueToolNames \cup PipelineToolNames
    \cup GroupToolNames

\* registerTools: the client method the registered callback of `name` reaches.
registerTools(name) ==
    IF name \in UserToolNames THEN handleUserTool(name)
    ELSE IF name \in ProjectToolNames THEN handleProjectTool(name)
    ELSE IF name \in RepositoryToolNames THEN handleRepositoryTool(name)
    ELSE IF name \in MergeRequestToolNames THEN handleMergeRequestTool(name)
    ELSE IF name \in IssueToolNames THEN handleIssueTool(name)
    ELSE IF name \in PipelineToolNames THEN handlePipelineTool(name)
    ELSE handleGroupTool(name)

\* The message of the Error thrown by the default branch of the handler that
\* tool `name` is registered with.
unknownToolMessage(name) ==
    (IF name \in UserToolNames THEN "Unknown user tool: "
     ELSE IF name \in ProjectToolNames THEN "Unknown project tool: "
     ELSE IF name \in RepositoryToolNames THEN "Unknown repository tool: "
     ELSE IF name \in MergeRequestToolNames THEN "Unknown merge request tool: "
     ELSE IF name \in IssueToolNames THEN "Unknown issue tool: "
     ELSE IF name \in PipelineToolNames THEN "Unknown pipeline/job tool: "
     ELSE "Unknown group tool: ") \o name

\* A tool handler's case, given what `await client.method(...)` settled to:
\* `const result = await client.method(...); return format(result);`.
handleTool(result) ==
    IF result.state = "thrown" THEN result
    ELSE Ret([jt |-> "markdown", of |-> result.value])

(***************************************************************************)
(* Inputs                                                                  *)
(***************************************************************************)
\* Values of the three inbound credential headers: absent, empty, set.
InboundRequests ==
    {InboundHeaders(t, b, a) :
        t \in {JsNull, Str(""), Str("glpat-tenant")},
        b \in {JsNull, Str(""), Str("https://gitlab.example/api/v4")},
        a \in {JsNull, Str(""), Str("oauth-tenant")}}

\* Credentials handed to createGitLabClient by a direct caller.
DirectCredentials ==
    {TenantCredentials(p, b, a) :
        p \in {Undefined, Str("glpat-tenant")},
        b \in {Undefined, Str("https://gitlab.example/api/v4")},
        a \in {Undefined, Str("oauth-tenant")}}
    \cup {TenantCredentials(Str(""), Undefined, Str(""))}

HeaderChars == {"3", "0", "a", "-"}

\* Every header text of at most n characters.
HeaderTexts(n) == UNION {[1..k -> HeaderChars] : k \in 0..n}

ErrorBodies ==
    {NotJson, JsonNull, JsonNumber}
    \cup {JsonObject(m, e, Undefined, Undefined) :
            m \in {Undefined, Str(""), Str("upstream message"), Obj("{name: [taken]}")},
            e \in {Undefined, Str(""), Str("upstream error")}}

SuccessBodies ==
    {NotJson, JsonNull,
     JsonObject(Undefined, Undefined, Str("alice"), Undefined),
     JsonObject(Undefined, Undefined, Undefined, Obj("[diff]")),
     JsonObject(Undefined, Undefined, Undefined, Undefined),
     JsonArray(<<1>>)}

\* What the transport can answer to one outbound request.
Responses ==
    {NetworkFailure}
    \cup {Response(429, ra, JsNull, JsNull, JsNull, JsNull, JsNull, NotJson) :
            ra \in HeaderValues(HeaderTexts(MaxHdrLen))}
    \cup {PlainResponse(st, b) : st \in {401, 403}, b \in ErrorBodies}
    \cup {PlainResponse(st, b) : st \in {304, 404, 500}, b \in ErrorBodies}
    \cup {PlainResponse(204, NotJson)}
    \cup {PlainResponse(st, b) : st \in {200, 201}, b \in SuccessBodies}

\* No call yet: every argument undefined.
NoParams ==
    Arguments(<<>>, Undefined, Undefined, Undefined, Undefined, Undefined,
              Undefined, Undefined, Undefined)

\* Arguments that pass every tool's schema: a namespaced project path, a
\* branch, tag, file, label, key or sha, a numeric id and refs.
ValidArguments ==
    Arguments(<<>>, Undefined, Undefined, Text(<<"group", "/", "sub-project">>),
              Text(<<"main">>), Num(5), Text(<<"main">>), Text(<<"v1">>),
              Text(<<"v2">>))

(***************************************************************************)
(* State                                                                   *)
(***************************************************************************)
VARIABLES
    pc,              \* position of the call: idle, rejected, serving, ready, awaiting, done
    inbound,         \* credential headers of the inbound POST /mcp request
    caught,          \* the error the Worker caught at the boundary
    workerResponse,  \* the response the Worker itself produced
    client,          \* the client instance of this call
    registered,      \* tool names registered on this call's server
    tool,            \* the tool whose handler ran
    method,          \* the client method invoked
    params,          \* pagination parameters handed to the method
    outbound,        \* the last request handed to fetch
    fetchCount,      \* number of requests handed to fetch
    response,        \* what the transport answered
    outcome,         \* how the client method settled
    util,            \* last application of a pagination utility
    calls            \* inbound calls served concurrently, each with its own state

vars == <<pc, inbound, caught, workerResponse, client, registered, tool,
          method, params, outbound, fetchCount, response, outcome, util, calls>>

NoInbound == InboundHeaders(Undefined, Undefined, Undefined)
NoWorkerResponse == [status |-> Undefined, error |-> Undefined, message |-> Undefined]
NoRequest == [baseUrl |-> Undefined, endpoint |-> <<>>, headers |-> NoHeaders]
NoResponse == [PlainResponse(0, NotJson) EXCEPT !.rejected = TRUE, !.status = -1]
NoUtil == [fn |-> "none"]

\* Identities of the inbound calls that may be in progress at once.
CallIds == 1..MaxCalls

\* A call that has not arrived.
NoCall ==
    [pc |-> "idle", inbound |-> NoInbound, caught |-> NoError,
     client |-> NoClient, tool |-> "none", outbound |-> NoRequest,
     fetchCount |-> 0]

Init ==
    /\ pc = "idle"
    /\ inbound = NoInbound
    /\ caught = NoError
    /\ workerResponse = NoWorkerResponse
    /\ client = NoClient
    /\ registered = {}
    /\ tool = "none"
    /\ method = "none"
    /\ params = NoParams
    /\ outbound = NoRequest
    /\ fetchCount = 0
    /\ response = NoResponse
    /\ outcome = Pending
    /\ util = NoUtil
    /\ calls = [i \in CallIds |-> NoCall]

(***************************************************************************)
(* Worker: POST /mcp                                                       *)
(***************************************************************************)
\* The 401 response built in the catch block of the fetch handler.
Unauthorized(error) ==
    [status |-> Num(401), error |-> Str("Unauthorized"),
     message |-> IF error.kind \in ErrorClasses THEN MessageOf(error)
                 ELSE Str("Invalid credentials")]

\* fetch handler, /mcp branch: parse, validate, then reject or build the server.
FetchMcp(headers) ==
    /\ pc = "idle"
    /\ inbound' = headers
    /\ LET credentials == parseTenantCredentials(headers)
           error == validateCredentials(credentials)
       IN  IF error # NoError
           THEN /\ caught' = error
                /\ workerResponse' = Unauthorized(error)
                /\ pc' = "rejected"
                /\ UNCHANGED <<client, registered>>
           ELSE /\ client' = createGitLabClient(credentials)
                /\ registered' = RegisteredTools
                /\ pc' = "serving"
                /\ UNCHANGED <<caught, workerResponse>>
    /\ UNCHANGED <<tool, method, params, outbound, fetchCount, response,
                   outcome, util, calls>>

\* A caller other than the Worker constructs a client directly.
CreateClient(credentials) ==
    /\ pc = "idle"
    /\ client' = createGitLabClient(credentials)
    /\ pc' = "ready"
    /\ UNCHANGED <<inbound, caught, workerResponse, registered, tool, method,
                   params, outbound, fetchCount, response, outcome, util, calls>>

(***************************************************************************)
(* A client method, up to its await of fetch: the authentication headers   *)
(* are built first, and fetch is called only if that did not throw.        *)
(***************************************************************************)
Invoke(m, p) ==
    LET auth == getAuthHeaders(client)
    IN  /\ method' = m
        /\ params' = p
        /\ IF auth.state = "thrown"
           THEN /\ outcome' = MethodOutcome(m, auth)
                /\ pc' = "done"
                /\ UNCHANGED <<outbound, fetchCount>>
           ELSE /\ outbound' = [baseUrl |-> client.baseUrl,
                             endpoint |-> requestUrl(m, p),
                             headers |-> auth.value]
                /\ fetchCount' = fetchCount + 1
                /\ outcome' = Pending
                /\ pc' = "awaiting"

\* The MCP handler runs the registered callback of tool `name`.
ToolCall(name) ==
    /\ pc = "serving"
    /\ name \in registered
    /\ tool' = name
    /\ IF registerTools(name) = UnknownTool
       THEN /\ outcome' = Throw(JsError("Error", unknownToolMessage(name)))
            /\ pc' = "done"
            /\ UNCHANGED <<method, params, outbound, fetchCount>>
       ELSE Invoke(registerTools(name), ValidArguments)
    /\ UNCHANGED <<inbound, caught, workerResponse, client, registered,
                   response, util, calls>>

\* A direct caller invokes one of `methods` with one of `arguments`.
MethodCall(methods, arguments) ==
    /\ pc = "ready"
    /\ \E m \in methods, p \in arguments : Invoke(m, p)
    /\ UNCHANGED <<inbound, caught, workerResponse, client, registered, tool,
                   response, util, calls>>

\* Respond clearing the client's tokens once upstream has answered 401.
Respond_ForgetsTokensOn401(answers) ==
    /\ pc = "awaiting"
    /\ \E r \in answers :
          /\ response' = r
          /\ outcome' = MethodOutcome(method, ExecutorOutcome(method, r))
          /\ client' = IF r.status = 401
                       THEN [client EXCEPT !.credentials = NoCredentials]
                       ELSE client
    /\ pc' = "done"
    /\ UNCHANGED <<inbound, caught, workerResponse, registered, tool,
                   method, params, outbound, fetchCount, util, calls>>

\* Respond sending the request a second time after a first 429.
Respond_RetryOnce(answers) ==
    /\ pc = "awaiting"
    /\ \E r \in answers :
          /\ response' = r
          /\ IF r.status = 429 /\ fetchCount = 1
             THEN /\ fetchCount' = fetchCount + 1
                  /\ pc' = "awaiting"
                  /\ UNCHANGED outcome
             ELSE /\ outcome' = MethodOutcome(method, ExecutorOutcome(method, r))
                  /\ pc' = "done"
                  /\ UNCHANGED fetchCount
    /\ UNCHANGED <<inbound, caught, workerResponse, client, registered, tool,
                   method, params, outbound, util, calls>>

\* The fetch promise settles with one of `answers` and the awaiting method
\* runs to completion.
Respond(answers) ==
    /\ pc = "awaiting"
    /\ \E r \in answers :
          /\ response' = r
          /\ outcome' = MethodOutcome(method, ExecutorOutcome(method, r))
    /\ pc' = "done"
    /\ UNCHANGED <<inbound, caught, workerResponse, client, registered, tool,
                   method, params, outbound, fetchCount, util, calls>>

Next ==
    \/ \E headers \in InboundRequests : FetchMcp(headers)
    \/ \E credentials \in DirectCredentials : CreateClient(credentials)
    \/ \E name \in RegisteredTools : ToolCall(name)
    \/ MethodCall(Methods, {ValidArguments})
    \/ Respond(Responses)

Spec == Init /\ [][Next]_vars

(***************************************************************************)
(* List calls and pagination utilities on a directly constructed client:   *)
(* every combination of the pagination response headers and item lists.    *)
(***************************************************************************)
ItemIds == {"item-a", "item-b"}

\* Every list of at most n items.
ItemLists(n) == UNION {[1..k -> ItemIds] : k \in 0..n}

\* A pagination header: absent, empty, an integer of one or two digits, not a
\* number.
PageHeaderValues == HeaderValues({<<>>, <<"3">>, <<"4", "2">>, <<"a">>})

ListBodies ==
    {JsonArray(items) : items \in ItemLists(MaxItems)}
    \cup {JsonObject(Undefined, Undefined, Undefined, Undefined)}

ListResponses ==
    {Response(200, JsNull, xTotal, xTotalPages, xPage, xNextPage, JsNull, b) :
        xTotal \in PageHeaderValues, xTotalPages \in PageHeaderValues,
        xPage \in PageHeaderValues, xNextPage \in PageHeaderValues,
        b \in ListBodies}

HeaderOnlyResponses ==
    {Response(200, JsNull, xTotal, xTotalPages, xPage, xNextPage, xPerPage,
              JsonArray(<<>>)) :
        xTotal \in PageHeaderValues, xTotalPages \in PageHeaderValues,
        xPage \in PageHeaderValues, xNextPage \in PageHeaderValues,
        xPerPage \in PageHeaderValues}

ListParams == {[ValidArguments EXCEPT !.perPage = pp] : pp \in {Undefined, Num(1)}}

OptionSets ==
    {PaginationOptions(total, page, totalPages, nextPage, hasMore) :
        total \in {Undefined, Num(5)}, page \in {Undefined, Num(1)},
        totalPages \in {Undefined, Num(3)}, nextPage \in {Undefined, Num(2)},
        hasMore \in {Undefined, Bool(TRUE), Bool(FALSE)}}

\* A client constructed from a tenant's private token.
InitList ==
    /\ pc = "ready"
    /\ inbound = NoInbound
    /\ caught = NoError
    /\ workerResponse = NoWorkerResponse
    /\ client = createGitLabClient(
                    TenantCredentials(Str("glpat-tenant"), Undefined, Undefined))
    /\ registered = {}
    /\ tool = "none"
    /\ method = "none"
    /\ params = NoParams
    /\ outbound = NoRequest
    /\ fetchCount = 0
    /\ response = NoResponse
    /\ outcome = Pending
    /\ util = NoUtil
    /\ calls = [i \in CallIds |-> NoCall]

UseCreatePaginatedResponse ==
    /\ pc = "ready"
    /\ \E list \in ItemLists(MaxItems), options \in OptionSets :
          util' = [fn |-> "createPaginatedResponse", items |-> JsonArray(list),
                   options |-> options,
                   result |-> createPaginatedResponse(JsonArray(list), options)]
    /\ pc' = "done"
    /\ UNCHANGED <<inbound, caught, workerResponse, client, registered, tool,
                   method, params, outbound, fetchCount, response, outcome, calls>>

UseEmptyPaginatedResponse ==
    /\ pc = "ready"
    /\ util' = [fn |-> "emptyPaginatedResponse", result |-> emptyPaginatedResponse]
    /\ pc' = "done"
    /\ UNCHANGED <<inbound, caught, workerResponse, client, registered, tool,
                   method, params, outbound, fetchCount, response, outcome, calls>>

UseParseGitLabPaginationHeaders ==
    /\ pc = "ready"
    /\ \E resp \in HeaderOnlyResponses :
          util' = [fn |-> "parseGitLabPaginationHeaders", headers |-> resp,
                   result |-> parseGitLabPaginationHeaders(resp)]
    /\ pc' = "done"
    /\ UNCHANGED <<inbound, caught, workerResponse, client, registered, tool,
                   method, params, outbound, fetchCount, response, outcome, calls>>

\* Arguments of normalizePaginationParams: params omitted, or perPage absent,
\* NaN or any integer from -1 to MaxPerPageArg and page absent, negative,
\* zero or positive; the ceiling omitted or given.
NormalizeParams ==
    {Undefined}
    \cup {[perPage |-> pp, page |-> pg] :
            pp \in {Undefined, NaN} \cup {Num(k) : k \in (0 - 1)..MaxPerPageArg},
            pg \in {Undefined, Num(0 - 1), Num(0), Num(2)}}

NormalizeCeilings == {Undefined, Num(1), Num(50), Num(100)}

UseNormalizePaginationParams ==
    /\ pc = "ready"
    /\ \E p \in NormalizeParams, ceiling \in NormalizeCeilings :
          util' = [fn |-> "normalizePaginationParams", params |-> p,
                   maxPerPage |-> ceiling,
                   result |-> normalizePaginationParams(p, ceiling)]
    /\ pc' = "done"
    /\ UNCHANGED <<inbound, caught, workerResponse, client, registered, tool,
                   method, params, outbound, fetchCount, response, outcome, calls>>

NextList ==
    \/ MethodCall(ListMethods, ListParams)
    \/ Respond(ListResponses)
    \/ UseCreatePaginatedResponse
    \/ UseEmptyPaginatedResponse
    \/ UseParseGitLabPaginationHeaders
    \/ UseNormalizePaginationParams

SpecList == InitList /\ [][NextList]_vars

(***************************************************************************)
(* Method calls on a directly constructed client with identifiers and      *)
(* names that hold reserved characters.                                    *)
(***************************************************************************)
ArgAtoms == {"x", "/", "?"}

\* Every non-empty text of at most n atoms.
ArgTexts(n) == UNION {[1..k -> ArgAtoms] : k \in 1..n}

\* A numeric id, a namespaced path, a path holding a question mark.
IdentifierArgs ==
    {Num(42), Text(<<"group", "/", "sub-project">>), Text(<<"a", "?", "b">>)}

UrlArguments ==
    {Arguments(<<>>, Undefined, Undefined, id, Text(seg), Num(5), ref,
               Text(<<"v1">>), Text(<<"v2">>)) :
        id \in IdentifierArgs, seg \in ArgTexts(MaxArgLen),
        ref \in {Text(<<"main">>), Text(<<"a", "&", "b">>)}}

\* A field the caller's params object does not have.
Absent == [jt |-> "absent", n |-> 0, s |-> ""]

\* Names of filter fields, character by character as toSnakeCase reads them.
Key(name) ==
    CASE name = "search" -> <<"s", "e", "a", "r", "c", "h">>
      [] name = "orderBy" -> <<"o", "r", "d", "e", "r", "B", "y">>
      [] name = "archived" -> <<"a", "r", "c", "h", "i", "v", "e", "d">>
      [] name = "authorId" -> <<"a", "u", "t", "h", "o", "r", "I", "d">>
      [] name = "tagList" -> <<"t", "a", "g", "L", "i", "s", "t">>
      [] name = "refName" -> <<"r", "e", "f", "N", "a", "m", "e">>
      [] name = "withStats" -> <<"w", "i", "t", "h", "S", "t", "a", "t", "s">>
      [] name = "recursive" -> <<"r", "e", "c", "u", "r", "s", "i", "v", "e">>
      [] name = "scope" -> <<"s", "c", "o", "p", "e">>
      [] name = "path" -> <<"p", "a", "t", "h">>

\* An optional field of a params type, with the values drawn for it: left
\* out, undefined or null, or a value of its type (a string with a space, a
\* boolean, a number).
Field(name, type) ==
    [key |-> Key(name),
     values |->
        CASE type = "string" ->
               {Absent, Undefined, JsNull, Text(<<"a", " ", "b">>)}
          [] type = "boolean" -> {Absent, Bool(FALSE), Bool(TRUE)}
          [] type = "number" -> {Absent, Num(0), Num(7)}]

\* Filter fields each list method declares in its params type (up to three
\* per method, in declaration order); the other fields of these types are
\* strings, numbers and booleans serialised the same way.
DeclaredFields(m) ==
    CASE m = "listProjects" ->
           <<Field("search", "string"), Field("archived", "boolean"),
             Field("orderBy", "string")>>
      [] m = "listBranches" -> <<Field("search", "string")>>
      [] m = "listCommits" ->
           <<Field("refName", "string"), Field("withStats", "boolean")>>
      [] m = "listTags" ->
           <<Field("search", "string"), Field("orderBy", "string")>>
      [] m = "getRepositoryTree" ->
           <<Field("path", "string"), Field("recursive", "boolean")>>
      [] m = "listMergeRequests" ->
           <<Field("orderBy", "string"), Field("authorId", "number"),
             Field("search", "string")>>
      [] m = "listIssues" ->
           <<Field("authorId", "number"), Field("search", "string"),
             Field("orderBy", "string")>>
      [] m = "listLabels" -> <<Field("search", "string")>>
      [] m = "listPipelines" ->
           <<Field("scope", "string"), Field("orderBy", "string")>>
      [] m = "listPipelineJobs" -> <<Field("scope", "string")>>
      [] m = "listGroups" ->
           <<Field("search", "string"), Field("orderBy", "string")>>
      [] m = "listGroupProjects" ->
           <<Field("search", "string"), Field("archived", "boolean")>>
      [] m = "listUsers" -> <<Field("search", "string")>>
      [] m = "listProjectMembers" -> <<Field("search", "string")>>
      [] m = "listProjectRunners" -> <<Field("tagList", "string")>>
      [] OTHER -> <<>>

\* Every params object over the given fields, as its entries in order.
FilterObjects(fields) ==
    LET values == UNION {fields[i].values : i \in 1..Len(fields)}
        choices == {f \in [1..Len(fields) -> values] :
                      \A i \in 1..Len(fields) : f[i] \in fields[i].values}
    IN  {SelectSeq([i \in 1..Len(fields) |->
                      [key |-> fields[i].key, value |-> f[i]]],
                   LAMBDA e : e.value.jt # "absent") : f \in choices}

\* Calls of list method m: its filter fields, with perPage absent, zero,
\* small or above the ceiling, and page absent, zero or set.
FilterArguments(m) ==
    {[ValidArguments EXCEPT !.filters = filters, !.perPage = perPage,
                            !.page = page] :
        filters \in FilterObjects(DeclaredFields(m)),
        perPage \in {Undefined, Num(0), Num(5),
                     Num(PAGINATION_DEFAULTS.maxPerPage + 1)},
        page \in {Undefined, Num(0), Num(2)}}

UrlResponses ==
    {PlainResponse(200, JsonArray(<<>>)),
     PlainResponse(404, JsonObject(Str("404 Not Found"), Undefined, Undefined,
                                   Undefined))}

NextUrl ==
    \/ MethodCall(Methods, UrlArguments)
    \/ \E m \in ListMethods : MethodCall({m}, FilterArguments(m))
    \/ Respond(UrlResponses)

SpecUrl == InitList /\ [][NextUrl]_vars

(***************************************************************************)
(* Concurrent inbound calls from different tenants.  Each POST /mcp runs   *)
(* the fetch handler on its own: it parses its own headers, builds its own *)
(* server and client, and its tool callback uses the client it closed      *)
(* over.  The module holds no mutable state outside these locals.          *)
(***************************************************************************)
\* Inbound requests of two tenants and of a caller without credentials.
TenantRequests ==
    {InboundHeaders(Str("glpat-tenant"), JsNull, JsNull),
     InboundHeaders(JsNull, Str("https://gitlab.example/api/v4"),
                    Str("oauth-other")),
     InboundHeaders(Str("glpat-third"), Str("https://git.third.example/api/v4"),
                    Str("oauth-third")),
     InboundHeaders(JsNull, JsNull, JsNull)}

TenantTools ==
    {"gitlab_get_current_user", "gitlab_list_projects", "gitlab_get_file_raw"}

\* callbackClient with one client kept at module level and used by every call.
callbackClient_SharedAcrossCalls(cs, i) ==
    IF \E j \in DOMAIN cs : j # i /\ cs[j].client.constructed
    THEN cs[CHOOSE j \in DOMAIN cs : j # i /\ cs[j].client.constructed].client
    ELSE cs[i].client

\* The client captured by the tool callbacks that createStatelessServer
\* registered for call i: the local `client` of that invocation.
callbackClient(cs, i) == cs[i].client

\* Call i arrives: the /mcp branch of the fetch handler.
Arrive(i, headers) ==
    /\ calls[i].pc = "idle"
    /\ LET credentials == parseTenantCredentials(headers)
           error == validateCredentials(credentials)
       IN  calls' = [calls EXCEPT ![i] =
             IF error # NoError
             THEN [@ EXCEPT !.inbound = headers, !.caught = error,
                            !.pc = "rejected"]
             ELSE [@ EXCEPT !.inbound = headers,
                            !.client = createGitLabClient(credentials),
                            !.pc = "serving"]]
    /\ UNCHANGED <<pc, inbound, caught, workerResponse, client, registered,
                   tool, method, params, outbound, fetchCount, response,
                   outcome, util>>

\* The tool callback of call i runs up to its await of fetch.
CallTool(i, name) ==
    /\ calls[i].pc = "serving"
    /\ LET c == callbackClient(calls, i)
           auth == getAuthHeaders(c)
       IN  calls' = [calls EXCEPT ![i] =
             IF auth.state = "thrown"
             THEN [@ EXCEPT !.tool = name, !.pc = "done"]
             ELSE [@ EXCEPT !.tool = name,
                            !.outbound =
                                [baseUrl |-> c.baseUrl,
                                 endpoint |-> requestUrl(registerTools(name),
                                                         ValidArguments),
                                 headers |-> auth.value],
                            !.fetchCount = @ + 1,
                            !.pc = "awaiting"]]
    /\ UNCHANGED <<pc, inbound, caught, workerResponse, client, registered,
                   tool, method, params, outbound, fetchCount, response,
                   outcome, util>>

\* The request of call i is answered and the call completes.
Complete(i) ==
    /\ calls[i].pc = "awaiting"
    /\ calls' = [calls EXCEPT ![i].pc = "done"]
    /\ UNCHANGED <<pc, inbound, caught, workerResponse, client, registered,
                   tool, method, params, outbound, fetchCount, response,
                   outcome, util>>

NextTenants ==
    \/ \E i \in CallIds, headers \in TenantRequests : Arrive(i, headers)
    \/ \E i \in CallIds, name \in TenantTools : CallTool(i, name)
    \/ \E i \in CallIds : Complete(i)

SpecTenants == Init /\ [][NextTenants]_vars

(***************************************************************************)
(* One client used for several calls in a row: after a method has settled, *)
(* the holder of the client (a tool callback of the same server, or a      *)
(* direct caller) invokes a further method on it.                          *)
(***************************************************************************)
\* The holder of the client turns to its next call.
NextCall ==
    /\ pc = "done"
    /\ fetchCount < MaxUses
    /\ pc' = IF tool = "none" THEN "ready" ELSE "serving"
    /\ UNCHANGED <<inbound, caught, workerResponse, client, registered, tool,
                   method, params, outbound, fetchCount, response, outcome,
                   util, calls>>

NextReuse ==
    \/ \E headers \in InboundRequests : FetchMcp(headers)
    \/ \E credentials \in DirectCredentials : CreateClient(credentials)
    \/ \E name \in TenantTools : ToolCall(name)
    \/ MethodCall({"getCurrentUser", "testConnection", "listProjects",
                   "getJobLog", "deleteBranch"},
                  {ValidArguments,
                   [ValidArguments EXCEPT !.id = Num(42), !.perPage = Num(5)]})
    \/ Respond(UrlResponses
               \cup {NetworkFailure, PlainResponse(401, NotJson),
                     Response(429, Text(<<"3", "0">>), JsNull, JsNull, JsNull,
                              JsNull, JsNull, NotJson)})
    \/ NextCall

SpecReuse == Init /\ [][NextReuse]_vars

(***************************************************************************)
(* Properties                                                              *)
(***************************************************************************)
\* The method has settled after the transport answered with an HTTP status.
Answered == pc = "done" /\ fetchCount = 1 /\ ~response.rejected

\* Methods whose outcome is the outcome of one of the two shared executors.
SharedExecutorMethods == Methods \ (RawMethods \cup {"testConnection"})

\* A header text that is a decimal integer and nothing else.
IsIntegerText(cs) == cs # <<>> /\ \A i \in 1..Len(cs) : cs[i] \in Digits

\* A header text that does not start with an integer.
IsUnparsableText(cs) ==
    \/ cs = <<>>
    \/ /\ Head(cs) \notin Digits
       /\ ~(Head(cs) \in {"-", "+"} /\ Len(cs) > 1 /\ cs[2] \in Digits)

\* C1 (as claimed): an inbound POST /mcp request that carries neither token
\* header fails credential resolution with AuthenticationError and is rejected
\* with 401 at the boundary; no client is constructed, no tool handler runs and
\* no outbound request is made.
C1_RejectedWithAuthenticationError ==
    (/\ pc # "idle"
     /\ inbound.xGitLabToken = JsNull
     /\ inbound.xGitLabAccessToken = JsNull)
    => /\ pc = "rejected"
       /\ caught.kind = "AuthenticationError"
       /\ workerResponse.status = Num(401)
       /\ ~client.constructed
       /\ tool = "none" /\ method = "none"
       /\ fetchCount = 0

\* C2 (as claimed): after a 401 or 403 response every client method, the
\* raw-text methods included, throws AuthenticationError whatever the body.
C2_AuthenticationErrorFromAnyMethod ==
    (Answered /\ response.status \in {401, 403} /\ method # "testConnection")
    => /\ outcome.state = "thrown"
       /\ outcome.error.kind = "AuthenticationError"

\* C2 (amended): after a 401 or 403 response every method routed through one of
\* the two shared executors throws AuthenticationError whatever the body, while
\* getFileRaw and getJobLog throw GitLabApiError carrying that status.
C2_AuthenticationErrorFromSharedExecutors ==
    (Answered /\ response.status \in {401, 403})
    => /\ method \in SharedExecutorMethods
            => /\ outcome.state = "thrown"
               /\ outcome.error.kind = "AuthenticationError"
       /\ method \in RawMethods
            => /\ outcome.state = "thrown"
               /\ outcome.error.kind = "GitLabApiError"
               /\ outcome.error.status = Num(response.status)

C2_Witness ==
    /\ Answered
    /\ response.status = 403
    /\ response.body = JsonObject(Str("upstream message"), Str("upstream error"),
                                  Undefined, Undefined)
    /\ method \in ListMethods
    /\ outcome.error.kind = "AuthenticationError"

\* C3 (as claimed): on a 429 the shared executors throw RateLimitError whose
\* retryAfterSeconds is the integer of the Retry-After header when that is an
\* integer, and 60 when the header is absent or does not parse; it is always a
\* number.
C3_RetryAfterDefaultsTo60 ==
    (Answered /\ response.status = 429 /\ method \in SharedExecutorMethods)
    => /\ outcome.state = "thrown"
       /\ outcome.error.kind = "RateLimitError"
       /\ outcome.error.retryAfterSeconds.jt = "number"
       /\ (response.retryAfter.jt = "text" /\ IsIntegerText(response.retryAfter.s))
            => outcome.error.retryAfterSeconds
                 = Num(DecimalValue(response.retryAfter.s, 0))
       /\ (response.retryAfter.jt = "null"
           \/ (response.retryAfter.jt = "text"
               /\ IsUnparsableText(response.retryAfter.s)))
            => outcome.error.retryAfterSeconds = Num(60)

\* The message C4 expects for the answered response: the body's non-empty
\* `message`, else its non-empty `error`, else "API error: <status>".
C4_ExpectedMessage ==
    LET b == response.body
        isObject == b.json /\ b.jt = "object"
        given(v) == v.jt # "undefined" /\ v # Str("")
    IN  IF isObject /\ given(b.message) THEN b.message
        ELSE IF isObject /\ given(b.error) THEN b.error
        ELSE Str("API error: " \o ToString(response.status))

\* C4: for every non-2xx status other than 401, 403 and 429 the shared
\* executors throw GitLabApiError carrying the upstream status and the message
\* of the error body's `message` field, else of its `error` field, else the
\* string "API error: <status>" (body not JSON, null, not an object, or with
\* neither field set).
C4_GitLabApiErrorCarriesStatusAndMessage ==
    (/\ Answered
     /\ ~Ok(response.status)
     /\ response.status \notin {401, 403, 429}
     /\ method \in SharedExecutorMethods)
    => /\ outcome.state = "thrown"
       /\ outcome.error.kind = "GitLabApiError"
       /\ outcome.error.status = Num(response.status)
       /\ outcome.error.message = C4_ExpectedMessage

C4_Witness ==
    /\ Answered
    /\ response.status = 500
    /\ response.body = JsonNull
    /\ method \in ListMethods
    /\ outcome.error.kind = "GitLabApiError"
    /\ outcome.error.message = Str("API error: 500")

\* C5 (as claimed): after a 204 response every method routed through the
\* single-resource executor returns undefined without throwing.
C5_NoContentReturnsVoid ==
    (/\ Answered
     /\ response.status = 204
     /\ method \in SingleResourceMethods \ {"testConnection"})
    => outcome = Ret(Undefined)

\* getCurrentUser, which testConnection awaits, resolved.
C6_GetCurrentUserSucceeded ==
    fetchCount = 1 /\ request(response).state = "returned"

\* C6 (as claimed): testConnection never throws; it reports connected = true
\* exactly when getCurrentUser succeeded, and otherwise connected = false with
\* a non-empty message string.
C6_ConnectedIffGetCurrentUserSucceeded ==
    (pc = "done" /\ method = "testConnection")
    => /\ outcome.state = "returned"
       /\ outcome.value.connected = C6_GetCurrentUserSucceeded
       /\ ~outcome.value.connected
            => /\ outcome.value.message.jt = "string"
               /\ outcome.value.message.s # ""

\* C6 (amended): testConnection never throws; it reports connected = true, with
\* the message "Connected as <username>", exactly when getCurrentUser resolved
\* with a value that is neither undefined (a 204) nor null, and otherwise
\* connected = false with a non-empty message string, which is the message of
\* the error getCurrentUser threw when it threw one.
C6_TestConnectionNeverThrows ==
    (pc = "done" /\ method = "testConnection")
    => /\ outcome.state = "returned"
       /\ outcome.value.connected
            = (/\ C6_GetCurrentUserSucceeded
               /\ response.status # 204
               /\ response.body.jt # "null")
       /\ (outcome.value.connected /\ response.body.username.jt = "string")
            => outcome.value.message
                 = Str("Connected as " \o response.body.username.s)
       /\ ~outcome.value.connected
            => /\ outcome.value.message.jt = "string"
               /\ outcome.value.message.s # ""
       /\ (fetchCount = 1 /\ request(response).state = "thrown")
            => outcome.value.message = MessageOf(request(response).error)
       /\ fetchCount = 0
            => outcome.value.message = MessageOf(getAuthHeaders(client).error)

C6_Witness ==
    /\ pc = "done"
    /\ method = "testConnection"
    /\ response.status = 500
    /\ ~response.rejected
    /\ outcome.state = "returned"
    /\ ~outcome.value.connected
    /\ outcome.value.message = Str("API error: 500")

\* A list method has returned its envelope.
ListReturned ==
    Answered /\ method \in ListMethods /\ outcome.state = "returned"

\* C7: the envelope of every list call has hasMore = (nextPage !== undefined),
\* whatever the X-Next-Page header (absent, empty, integer, not a number);
\* createPaginatedResponse sets hasMore to the supplied hasMore when one is
\* supplied and to (nextPage !== undefined) otherwise.
C7_HasMoreIffNextPage ==
    /\ ListReturned
         => /\ outcome.value.hasMore = Bool(outcome.value.nextPage # Undefined)
            /\ outcome.value.hasMore
                 = Bool(/\ response.xNextPage.jt = "text"
                        /\ response.xNextPage.s # <<>>)
    /\ (pc = "done" /\ util.fn = "createPaginatedResponse")
         => util.result.hasMore
              = IF util.options.hasMore.jt = "boolean"
                THEN util.options.hasMore
                ELSE Bool(util.options.nextPage # Undefined)

C7_Witness ==
    /\ pc = "done"
    /\ util.fn = "createPaginatedResponse"
    /\ util.options.hasMore = Bool(FALSE)
    /\ util.options.nextPage = Num(2)
    /\ util.result.hasMore = Bool(FALSE)

\* C8: the envelope's count is the number of items actually returned, whatever
\* the X-Total header and the requested perPage say, and items are the
\* upstream array in its order; createPaginatedResponse and
\* emptyPaginatedResponse keep count = items.length as well.
C8_CountIsItemsLength ==
    /\ ListReturned
         => /\ outcome.value.items = response.body
            /\ response.body.jt = "array"
                 => outcome.value.count = Num(Len(response.body.items))
    /\ (pc = "done" /\ util.fn = "createPaginatedResponse")
         => /\ util.result.items = util.items
            /\ util.result.count = Num(Len(util.items.items))
    /\ (pc = "done" /\ util.fn = "emptyPaginatedResponse")
         => /\ util.result.items.items = <<>>
            /\ util.result.count = Num(0)

C8_Witness ==
    /\ ListReturned
    /\ params.perPage = Num(1)
    /\ response.xTotal = Text(<<"3">>)
    /\ response.body.jt = "array"
    /\ response.body.items = <<"item-b", "item-a">>
    /\ outcome.value.items.items = <<"item-b", "item-a">>
    /\ outcome.value.count = Num(2)

\* What C9 expects from one pagination header: undefined when the header is
\* absent or is not an integer, and never NaN.
C9_Degrades(header, decoded) ==
    /\ decoded # NaN
    /\ (header.jt = "null" \/ ~IsIntegerText(header.s)) => decoded = Undefined

\* C9 (as claimed): decoding the pagination headers never throws and a missing
\* or malformed header yields undefined, never NaN, both in the list executor
\* and in parseGitLabPaginationHeaders.
C9_MalformedHeaderIsUndefined ==
    /\ (Answered /\ method \in ListMethods /\ response.body.jt = "array")
         => /\ outcome.state = "returned"
            /\ C9_Degrades(response.xTotal, outcome.value.total)
            /\ C9_Degrades(response.xTotalPages, outcome.value.totalPages)
            /\ C9_Degrades(response.xNextPage, outcome.value.nextPage)
    /\ (pc = "done" /\ util.fn = "parseGitLabPaginationHeaders")
         => /\ C9_Degrades(util.headers.xTotal, util.result.total)
            /\ C9_Degrades(util.headers.xTotalPages, util.result.totalPages)
            /\ C9_Degrades(util.headers.xPage, util.result.page)
            /\ C9_Degrades(util.headers.xNextPage, util.result.nextPage)
            /\ C9_Degrades(util.headers.xPerPage, util.result.perPage)

\* What C10 expects from one pagination header that is an integer.
C10_Reports(header, decoded) ==
    (header.jt = "text" /\ IsIntegerText(header.s))
    => decoded = Num(DecimalValue(header.s, 0))

\* C10 (as claimed): the envelope of a list call reports total (X-Total),
\* totalPages (X-Total-Pages), page (X-Page) and nextPage (X-Next-Page); an
\* integer X-Page header is the envelope's page.
C10_EnvelopeReportsPage ==
    ListReturned
    => /\ C10_Reports(response.xTotal, outcome.value.total)
       /\ C10_Reports(response.xTotalPages, outcome.value.totalPages)
       /\ C10_Reports(response.xPage, outcome.value.page)
       /\ C10_Reports(response.xNextPage, outcome.value.nextPage)

\* The three headers the list executor reads are all decimal integers.
C11_IntegerHeaders(resp) ==
    /\ resp.xTotal.jt = "text" /\ IsIntegerText(resp.xTotal.s)
    /\ resp.xTotalPages.jt = "text" /\ IsIntegerText(resp.xTotalPages.s)
    /\ resp.xNextPage.jt = "text" /\ IsIntegerText(resp.xNextPage.s)

\* C11: a successful list response whose X-Total, X-Total-Pages and
\* X-Next-Page headers are non-negative integers T, P and N yields an envelope
\* with total = T, totalPages = P, nextPage = N and hasMore = true (42 for the
\* header text "42", 3 for "3"); parseGitLabPaginationHeaders decodes the same
\* headers to the same numbers.
C11_IntegerHeadersRoundTrip ==
    /\ (Answered /\ method \in ListMethods /\ response.body.jt = "array"
        /\ C11_IntegerHeaders(response))
         => /\ outcome.state = "returned"
            /\ outcome.value.total = Num(DecimalValue(response.xTotal.s, 0))
            /\ outcome.value.totalPages
                 = Num(DecimalValue(response.xTotalPages.s, 0))
            /\ outcome.value.nextPage
                 = Num(DecimalValue(response.xNextPage.s, 0))
            /\ outcome.value.hasMore = Bool(TRUE)
            /\ response.xTotal.s = <<"4", "2">> => outcome.value.total = Num(42)
            /\ response.xTotalPages.s = <<"3">> => outcome.value.totalPages = Num(3)
            /\ response.xNextPage.s = <<"3">> => outcome.value.nextPage = Num(3)
    /\ (pc = "done" /\ util.fn = "parseGitLabPaginationHeaders"
        /\ C11_IntegerHeaders(util.headers))
         => /\ util.result.total = Num(DecimalValue(util.headers.xTotal.s, 0))
            /\ util.result.totalPages
                 = Num(DecimalValue(util.headers.xTotalPages.s, 0))
            /\ util.result.nextPage
                 = Num(DecimalValue(util.headers.xNextPage.s, 0))
            /\ util.headers.xTotal.s = <<"4", "2">> => util.result.total = Num(42)

C11_Witness ==
    /\ ListReturned
    /\ response.xTotal = Text(<<"4", "2">>)
    /\ response.xTotalPages = Text(<<"3">>)
    /\ response.xNextPage = Text(<<"3">>)
    /\ outcome.value.total = Num(42)
    /\ outcome.value.totalPages = Num(3)
    /\ outcome.value.nextPage = Num(3)
    /\ outcome.value.hasMore = Bool(TRUE)

\* The envelope C12 expects: no items, count 0, nothing else set, no more.
C12_EmptyEnvelope ==
    PaginatedResponse(JsonArray(<<>>), Num(0), Undefined, Undefined, Undefined,
                      Undefined, Bool(FALSE))

\* C12: a 2xx response with an empty list and no pagination header at all
\* yields the envelope with no items, count = 0, total, page, totalPages and
\* nextPage undefined and hasMore = false; emptyPaginatedResponse yields the
\* same envelope.
C12_EmptyListWithoutHeaders ==
    /\ (/\ Answered
        /\ method \in ListMethods
        /\ response.body = JsonArray(<<>>)
        /\ response.xTotal = JsNull
        /\ response.xTotalPages = JsNull
        /\ response.xPage = JsNull
        /\ response.xNextPage = JsNull)
         => outcome = Ret(C12_EmptyEnvelope)
    /\ (pc = "done" /\ util.fn = "emptyPaginatedResponse")
         => util.result = C12_EmptyEnvelope

C12_Witness ==
    /\ ListReturned
    /\ response.body = JsonArray(<<>>)
    /\ response.xTotal = JsNull
    /\ response.xTotalPages = JsNull
    /\ response.xPage = JsNull
    /\ response.xNextPage = JsNull
    /\ outcome.value.count = Num(0)
    /\ outcome.value.hasMore = Bool(FALSE)

\* normalizePaginationParams has been applied.
C13_Normalized == pc = "done" /\ util.fn = "normalizePaginationParams"

\* The perPage the caller supplied, undefined when params or perPage is absent.
C13_Requested ==
    IF "jt" \in DOMAIN util.params THEN Undefined ELSE util.params.perPage

\* C13: with the default ceiling normalizePaginationParams turns a perPage
\* above 100 into 100, returns a perPage from 1 to 100 unchanged and gives 20
\* when perPage is absent; with any ceiling the resulting perPage never exceeds
\* the ceiling in force.
C13_PerPageClampedToCeiling ==
    C13_Normalized
    => /\ util.result.perPage.jt = "number"
       /\ util.result.perPage.n
            <= (IF util.maxPerPage = Undefined THEN 100 ELSE util.maxPerPage.n)
       /\ util.maxPerPage = Undefined
            => /\ (C13_Requested.jt = "number" /\ C13_Requested.n > 100)
                    => util.result.perPage = Num(100)
               /\ (C13_Requested.jt = "number" /\ C13_Requested.n \in 1..100)
                    => util.result.perPage = C13_Requested
               /\ C13_Requested = Undefined
                    => util.result.perPage = Num(20)

C13_Witness ==
    /\ C13_Normalized
    /\ util.maxPerPage = Undefined
    /\ C13_Requested = Num(101)
    /\ util.result.perPage = Num(100)

\* A request has been handed to fetch.
Requested == pc \in {"awaiting", "done"} /\ fetchCount = 1

\* The path of an endpoint: what precedes its first "?".
RECURSIVE PathOf(_)
PathOf(cs) ==
    IF cs = <<>> \/ Head(cs) = "?" THEN <<>> ELSE <<Head(cs)>> \o PathOf(Tail(cs))

\* The segments of a path: the runs of atoms between its slashes.
RECURSIVE SplitSegments(_, _)
SplitSegments(cs, current) ==
    IF cs = <<>> THEN <<current>>
    ELSE IF Head(cs) = "/" THEN <<current>> \o SplitSegments(Tail(cs), <<>>)
    ELSE SplitSegments(Tail(cs), Append(current, Head(cs)))

\* Path segments of an endpoint that starts with a slash.
PathSegments(cs) == Tail(SplitSegments(PathOf(cs), <<>>))

\* A text with every slash written %2F and every question mark written %3F.
SlashesEscaped(cs) ==
    [i \in 1..Len(cs) |-> IF cs[i] = "/" THEN "%2F"
                          ELSE IF cs[i] = "?" THEN "%3F" ELSE cs[i]]

\* The same call with plain arguments that hold no reserved character.
PlainArguments ==
    [params EXCEPT !.id = Text(<<"x">>), !.seg = Text(<<"x">>),
                   !.ref = Text(<<"x">>)]

\* C14: in the outbound URL of every method that takes a project or group
\* identifier the identifier is one path segment, the second, with its slashes
\* percent-encoded ("group/sub-project" becomes group%2Fsub-project) and a
\* numeric identifier written as its decimal string; the number of path
\* segments up to and including it does not depend on the identifier.
C14_IdentifierIsOneSegment ==
    (Requested /\ method \in IdentifierMethods)
    => LET segments == PathSegments(outbound.endpoint)
       IN  /\ Len(segments) >= 2
           /\ segments[1] \in {<<"projects">>, <<"groups">>}
           /\ params.id.jt = "text" => segments[2] = SlashesEscaped(params.id.s)
           /\ params.id = Text(<<"group", "/", "sub-project">>)
                => segments[2] = <<"group", "%2F", "sub-project">>
           /\ params.id = Num(42) => segments[2] = <<"42">>
           /\ Len(segments) >= 3
                => segments[3] = PathSegments(requestUrl(method, PlainArguments))[3]

C14_Witness ==
    /\ Requested
    /\ method = "listGroupProjects"
    /\ params.id = Text(<<"group", "/", "sub-project">>)
    /\ outbound.endpoint = <<"/", "groups", "/", "group", "%2F", "sub-project",
                             "/", "projects">>

\* C15 (as claimed): in the outbound URL of every method a caller-supplied
\* string (identifier, branch, tag, file path, label, variable key, commit
\* sha, ref) never adds a path segment or a query string: the URL has as many
\* path segments, and a query string exactly when, as the same call with
\* strings that hold no reserved character.
C15_CallerInputAddsNoSegment ==
    Requested
    => LET plain == requestUrl(method, PlainArguments)
       IN  /\ Len(PathSegments(outbound.endpoint)) = Len(PathSegments(plain))
           /\ Includes(outbound.endpoint, "?") = Includes(plain, "?")

\* A credential that is present: a non-empty string.
Present(v) == v.jt = "string" /\ v.s # ""

\* C16: every outbound request carries exactly one authentication header:
\* Authorization: Bearer <accessToken> when the client has a bearer token,
\* also when it has a private token too, and PRIVATE-TOKEN: <privateToken>
\* otherwise; never both and never neither.
C16_ExactlyOneAuthHeader ==
    Requested
    => /\ (outbound.headers.authorization # Undefined)
            # (outbound.headers.privateToken # Undefined)
       /\ Present(client.credentials.accessToken)
            => /\ outbound.headers.authorization
                    = Str("Bearer " \o client.credentials.accessToken.s)
               /\ outbound.headers.privateToken = Undefined
       /\ ~Present(client.credentials.accessToken)
            => /\ Present(client.credentials.privateToken)
               /\ outbound.headers.privateToken = client.credentials.privateToken
               /\ outbound.headers.authorization = Undefined

C16_Witness ==
    /\ Requested
    /\ client.credentials.accessToken = Str("oauth-tenant")
    /\ client.credentials.privateToken = Str("glpat-tenant")
    /\ outbound.headers.authorization = Str("Bearer oauth-tenant")
    /\ outbound.headers.privateToken = Undefined

\* C17: on a client constructed with neither a bearer token nor a private
\* token a method call issues no HTTP request and fails with
\* AuthenticationError; testConnection, which catches every error, resolves to
\* connected = false with the message of that AuthenticationError.
C17_NoCredentialsNoRequest ==
    (/\ method # "none"
     /\ ~Present(client.credentials.accessToken)
     /\ ~Present(client.credentials.privateToken))
    => /\ pc = "done"
       /\ fetchCount = 0
       /\ outbound = NoRequest
       /\ method # "testConnection"
            => /\ outcome.state = "thrown"
               /\ outcome.error.kind = "AuthenticationError"
       /\ method = "testConnection"
            => /\ outcome.state = "returned"
               /\ ~outcome.value.connected
               /\ outcome.value.message = Str(
                    "No credentials provided. Include X-GitLab-Token or X-GitLab-Access-Token header.")

C17_Witness ==
    /\ pc = "done"
    /\ method \in ListMethods
    /\ client.constructed
    /\ client.credentials.accessToken = Undefined
    /\ client.credentials.privateToken = Undefined
    /\ fetchCount = 0
    /\ outcome.error.kind = "AuthenticationError"

\* C19: with credentials present every client method hands exactly one
\* request to fetch per invocation, whatever the response (429, 5xx, any
\* other, or a rejection): the call counter is one while the request is in
\* flight and still one after the method has settled.
C19_ExactlyOneRequestPerInvocation ==
    (/\ method # "none"
     /\ (Present(client.credentials.accessToken)
         \/ Present(client.credentials.privateToken)))
    => /\ pc \in {"awaiting", "done"}
       /\ fetchCount = 1

C19_Witness ==
    /\ pc = "done"
    /\ method = "testConnection"
    /\ response.status = 429
    /\ outcome.state = "returned"
    /\ fetchCount = 1

\* C20 (as claimed): invoking any registered tool reaches a handler branch
\* that calls the corresponding client method and never ends in the handler's
\* "Unknown ... tool" error.
C20_EveryRegisteredToolIsHandled ==
    tool # "none"
    => /\ tool \in registered
       /\ method \in Methods
       /\ method = registerTools(tool)
       /\ ~(outcome.state = "thrown" /\ outcome.error.kind = "Error")

\* The base URL an inbound request asks for: its override when that header is
\* present and not empty, the default API root otherwise.
C18_BaseUrlOf(headers) ==
    IF Present(headers.xGitLabBaseURL) THEN headers.xGitLabBaseURL
    ELSE Str("https://gitlab.com/api/v4")

\* C18: under every interleaving of concurrent inbound calls each call has its
\* own client, built from its own headers, and every outbound request carries
\* the token and the base URL of the inbound call that caused it, never those
\* of another call.
C18_TenantIsolation ==
    \A i \in CallIds :
        /\ calls[i].client.constructed
             => calls[i].client.credentials
                  = parseTenantCredentials(calls[i].inbound)
        /\ calls[i].fetchCount > 0
             => /\ calls[i].outbound.baseUrl = C18_BaseUrlOf(calls[i].inbound)
                /\ Present(calls[i].inbound.xGitLabAccessToken)
                     => /\ calls[i].outbound.headers.authorization
                             = Str("Bearer " \o calls[i].inbound.xGitLabAccessToken.s)
                        /\ calls[i].outbound.headers.privateToken = Undefined
                /\ ~Present(calls[i].inbound.xGitLabAccessToken)
                     => /\ calls[i].outbound.headers.privateToken
                             = calls[i].inbound.xGitLabToken
                        /\ calls[i].outbound.headers.authorization = Undefined

C18_Witness ==
    /\ calls[1].pc = "awaiting"
    /\ calls[2].pc = "awaiting"
    /\ calls[1].inbound.xGitLabToken = Str("glpat-tenant")
    /\ calls[2].inbound.xGitLabAccessToken = Str("oauth-other")
    /\ calls[1].outbound.headers.privateToken = Str("glpat-tenant")
    /\ calls[1].outbound.baseUrl = Str("https://gitlab.com/api/v4")
    /\ calls[2].outbound.headers.authorization = Str("Bearer oauth-other")
    /\ calls[2].outbound.baseUrl = Str("https://gitlab.example/api/v4")

\* What a caller can tell of an outcome: success, or the error's class with
\* its message, status and retry hint.
Classification(o) ==
    IF o.state = "thrown" THEN o.error ELSE NoError

\* C21 (as claimed): the paginated-list executor classifies a response as the
\* single-resource executor does: whenever a list method settles on a response
\* with an HTTP status (an error response with any body, a 204, or a 2xx with
\* a JSON array), its outcome is a success exactly when the single-resource
\* executor succeeds on that response, and otherwise the same error with the
\* same message, status and retryAfterSeconds.
C21_ListExecutorClassifiesAsRequest ==
    (/\ Answered
     /\ method \in ListMethods
     /\ \/ ~Ok(response.status)
        \/ response.status = 204
        \/ response.body.jt = "array")
    => Classification(outcome) = Classification(request(response))

\* The three error classes of the taxonomy.
TaxonomyErrors == {"AuthenticationError", "RateLimitError", "GitLabApiError"}

\* C22: apart from testConnection, when the executor (or the own fetch of a
\* raw-text method) raises an AuthenticationError, RateLimitError or
\* GitLabApiError, the client method settles with that very error, message,
\* status and retryAfterSeconds included, and so does the tool handler that
\* awaited the method.
C22_ErrorsPropagateUnchanged ==
    (/\ Answered
     /\ method # "testConnection"
     /\ ExecutorOutcome(method, response).state = "thrown"
     /\ ExecutorOutcome(method, response).error.kind \in TaxonomyErrors)
    => /\ outcome = Throw(ExecutorOutcome(method, response).error)
       /\ tool # "none" => handleTool(outcome) = ExecutorOutcome(method, response)

\* A tool whose method returns nothing has met a 429 with Retry-After: 30.
C22_Witness ==
    /\ Answered
    /\ tool # "none"
    /\ method \in VoidMethods
    /\ response.status = 429
    /\ handleTool(outcome)
         = Throw(RateLimitError(Str("Rate limit exceeded"), Num(30)))

\* C23: getFileRaw and getJobLog send the authentication headers
\* getAuthHeaders builds for every method; on a 2xx response they return the
\* body as text without parsing it (also when it is not JSON); on every
\* non-2xx response, 401, 403 and 429 included, they raise GitLabApiError
\* carrying the upstream status.
C23_RawTextMethods ==
    (Requested /\ method \in RawMethods)
    => /\ outbound.headers = getAuthHeaders(client).value
       /\ (Answered /\ Ok(response.status))
            => outcome = Ret(RawText(response.body))
       /\ (Answered /\ ~Ok(response.status))
            => /\ outcome.state = "thrown"
               /\ outcome.error.kind = "GitLabApiError"
               /\ outcome.error.status = Num(response.status)

\* getFileRaw has returned a body that is not JSON.
C23_Witness ==
    /\ Answered
    /\ method = "getFileRaw"
    /\ response.status = 200
    /\ ~response.body.json
    /\ outbound.headers.privateToken = Str("glpat-tenant")
    /\ outcome = Ret(RawText(NotJson))

\* The method has settled after the transport rejected: no HTTP status exists.
TransportFailed == pc = "done" /\ fetchCount = 1 /\ response.rejected

\* C24 (as claimed): a network-level failure surfaces from every client method
\* other than testConnection as a GitLabApiError whose status is no HTTP
\* status, or as an error of a dedicated network-error class.
C24_NetworkFailureIsWrapped ==
    (TransportFailed /\ method # "testConnection")
    => /\ outcome.state = "thrown"
       /\ \/ /\ outcome.error.kind = "GitLabApiError"
             /\ outcome.error.status \notin {Num(st) : st \in 100..599}
          \/ outcome.error.kind = "NetworkError"

\* What precedes the first occurrence of atom sep, and what follows it.
RECURSIVE Before(_, _)
Before(cs, sep) ==
    IF cs = <<>> \/ Head(cs) = sep THEN <<>>
    ELSE <<Head(cs)>> \o Before(Tail(cs), sep)

RECURSIVE After(_, _)
After(cs, sep) ==
    IF cs = <<>> THEN <<>>
    ELSE IF Head(cs) = sep THEN Tail(cs) ELSE After(Tail(cs), sep)

\* The pieces of cs between the occurrences of atom sep.
RECURSIVE SplitAt(_, _, _)
SplitAt(cs, sep, current) ==
    IF cs = <<>> THEN <<current>>
    ELSE IF Head(cs) = sep THEN <<current>> \o SplitAt(Tail(cs), sep, <<>>)
    ELSE SplitAt(Tail(cs), sep, Append(current, Head(cs)))

\* The parameters of a URL, in order: what follows the first "?", cut at "&",
\* each piece cut at its first "=".
UrlParameters(cs) ==
    LET pieces == IF After(cs, "?") = <<>> THEN <<>>
                  ELSE SplitAt(After(cs, "?"), "&", <<>>)
    IN  [i \in 1..Len(pieces) |->
            [name |-> Before(pieces[i], "="), value |-> After(pieces[i], "=")]]

\* The two parameter names of the pagination mapping.
IsPerPageName(name) ==
    name \in {<<"per_page">>, <<"p", "e", "r", "_", "p", "a", "g", "e">>}
IsPageName(name) == name \in {<<"page">>, <<"p", "a", "g", "e">>}

\* List methods that build a query string from their params.
FilterMethods == {m \in ListMethods : DeclaredFields(m) # <<>>}

\* The snake_case name of each filter field.
C25_Name(key) ==
    CASE key = Key("search") -> <<"s", "e", "a", "r", "c", "h">>
      [] key = Key("orderBy") -> <<"o", "r", "d", "e", "r", "_", "b", "y">>
      [] key = Key("archived") -> <<"a", "r", "c", "h", "i", "v", "e", "d">>
      [] key = Key("authorId") -> <<"a", "u", "t", "h", "o", "r", "_", "i", "d">>
      [] key = Key("tagList") -> <<"t", "a", "g", "_", "l", "i", "s", "t">>
      [] key = Key("refName") -> <<"r", "e", "f", "_", "n", "a", "m", "e">>
      [] key = Key("withStats") ->
           <<"w", "i", "t", "h", "_", "s", "t", "a", "t", "s">>
      [] key = Key("recursive") ->
           <<"r", "e", "c", "u", "r", "s", "i", "v", "e">>
      [] key = Key("scope") -> <<"s", "c", "o", "p", "e">>
      [] key = Key("path") -> <<"p", "a", "t", "h">>

\* The string form of a field value as it stands in a query string (a space
\* is written "+").
C25_Value(v) ==
    CASE v.jt = "boolean" -> IF v.n = 1 THEN <<"true">> ELSE <<"false">>
      [] v.jt = "number" /\ v.n = 0 -> <<"0">>
      [] v.jt = "number" /\ v.n = 7 -> <<"7">>
      [] v.jt = "text" -> <<"a", "+", "b">>

\* C25: the query string a filter/list method builds holds exactly one
\* parameter for each field of params whose value is neither undefined nor
\* null (perPage and page aside, which it never writes under their camel-case
\* names): named by the field's snake_case name (orderBy -> order_by,
\* tagList -> tag_list) and valued by the string form of the field's value,
\* false and 0 included.
C25_FilterParameters ==
    (Requested /\ method \in FilterMethods)
    => LET present ==
               SelectSeq(params.filters,
                         LAMBDA e : e.value.jt \notin {"undefined", "null"})
           emitted ==
               SelectSeq(UrlParameters(outbound.endpoint),
                         LAMBDA q : q.name \notin {<<"per_page">>, <<"page">>})
       IN  /\ Len(emitted) = Len(present)
           /\ \A i \in 1..Len(present) :
                 emitted[i] = [name |-> C25_Name(present[i].key),
                               value |-> C25_Value(present[i].value)]

\* listProjects with search undefined, archived false and orderBy set.
C25_Witness ==
    /\ Requested
    /\ method = "listProjects"
    /\ params.filters = <<[key |-> Key("search"), value |-> Undefined],
                          [key |-> Key("archived"), value |-> Bool(FALSE)],
                          [key |-> Key("orderBy"),
                           value |-> Text(<<"a", " ", "b">>)]>>
    /\ params.perPage = Undefined
    /\ params.page = Undefined
    /\ outbound.endpoint
         = <<"/", "projects", "?", "a", "r", "c", "h", "i", "v", "e", "d", "=",
             "false", "&", "o", "r", "d", "e", "r", "_", "b", "y", "=",
             "a", "+", "b">>

\* The parameters of a URL that carry the given name.
ParametersNamed(cs, name) ==
    SelectSeq(UrlParameters(cs), LAMBDA q : q.name = name)

\* C26 (as claimed): the list executor writes per_page exactly when the
\* caller supplied perPage and page exactly when the caller supplied page,
\* each once and with the supplied value unchanged: no default, no clamping
\* (a perPage above 100 and a page of 0 reach upstream as given).
C26_PaginationForwardedAsGiven ==
    (Requested /\ method \in ListMethods)
    => LET perPage == ParametersNamed(outbound.endpoint, <<"per_page">>)
           page == ParametersNamed(outbound.endpoint, <<"page">>)
       IN  /\ Len(perPage) = (IF params.perPage = Undefined THEN 0 ELSE 1)
           /\ Len(page) = (IF params.page = Undefined THEN 0 ELSE 1)
           /\ params.perPage # Undefined
                => perPage[1].value = <<ToString(params.perPage.n)>>
           /\ params.page # Undefined
                => page[1].value = <<ToString(params.page.n)>>

\* The page the caller supplied, undefined when params or page is absent.
C27_Supplied ==
    IF "jt" \in DOMAIN util.params THEN Undefined ELSE util.params.page

\* C27: normalizePaginationParams returns for every input an object whose
\* page is the supplied page, negative, zero and absent included, while its
\* perPage never exceeds the ceiling in force; no input makes it throw.
C27_PagePassesThrough ==
    C13_Normalized
    => /\ DOMAIN util.result = {"perPage", "page"}
       /\ util.result.page = C27_Supplied
       /\ util.result.perPage.jt = "number"
       /\ util.result.perPage.n
            <= (IF util.maxPerPage = Undefined THEN PAGINATION_DEFAULTS.maxPerPage
                ELSE util.maxPerPage.n)

\* A negative page came back as given while perPage was clamped.
C27_Witness ==
    /\ C13_Normalized
    /\ util.maxPerPage = Num(50)
    /\ util.params = [perPage |-> Num(51), page |-> Num(0 - 1)]
    /\ util.result = [perPage |-> Num(50), page |-> Num(0 - 1)]

\* The client has handed a request to fetch, its first or a later one.
Sent == pc \in {"awaiting", "done"} /\ fetchCount >= 1

C29_ClientImmutable ==
    [][/\ client.constructed => client' = client
       /\ (pc # "awaiting" /\ pc' = "awaiting")
            => outbound' = [baseUrl |-> createGitLabClient(client.credentials).baseUrl,
                            endpoint |-> requestUrl(method', params'),
                            headers |-> getAuthHeaders(
                                createGitLabClient(client.credentials)).value]]_vars

\* A second request goes out with the client's token after the first was
\* answered 401.
C29_Witness ==
    /\ pc = "awaiting"
    /\ fetchCount = 2
    /\ response.status = 401
    /\ client.credentials.privateToken = Str("glpat-tenant")
    /\ client.credentials.accessToken = Undefined
    /\ outbound.headers.privateToken = Str("glpat-tenant")

\* How often an atom occurs in a URL.
Count(cs, atom) == Cardinality({i \in 1..Len(cs) : cs[i] = atom})

\* C30: the outbound URL of every list method, for every combination of
\* filter and pagination inputs, holds at most one "?", and holds it exactly
\* when it holds a parameter; the parameters are non-empty name=value pairs
\* joined by "&", every filter field with a value among them; no filter
\* parameter follows a pagination parameter; per_page and page occur at most
\* once each.
C30_ListUrlWellFormed ==
    (Requested /\ method \in ListMethods)
    => LET url == outbound.endpoint
           parameters == UrlParameters(url)
           present ==
               SelectSeq(params.filters,
                         LAMBDA e : e.value.jt \notin {"undefined", "null"})
       IN  /\ Count(url, "?") <= 1
           /\ Count(url, "?") = 1 <=> Count(url, "=") >= 1
           /\ Count(Before(url, "?"), "=") = 0
           /\ Count(Before(url, "?"), "&") = 0
           /\ Len(parameters) = Count(url, "=")
           /\ \A i \in 1..Len(parameters) :
                 /\ parameters[i].name # <<>>
                 /\ Count(parameters[i].name, "=") = 0
                 /\ Count(parameters[i].value, "=") = 0
           /\ method \in FilterMethods => Len(parameters) >= Len(present)
           /\ \A i, j \in 1..Len(parameters) :
                 (/\ i < j
                  /\ \/ IsPerPageName(parameters[i].name)
                     \/ IsPageName(parameters[i].name))
                 => \/ IsPerPageName(parameters[j].name)
                    \/ IsPageName(parameters[j].name)
           /\ Cardinality({i \in 1..Len(parameters) :
                             IsPerPageName(parameters[i].name)}) <= 1
           /\ Cardinality({i \in 1..Len(parameters) :
                             IsPageName(parameters[i].name)}) <= 1

\* listProjects with one filter and both pagination fields.
C30_Witness ==
    /\ Requested
    /\ method = "listProjects"
    /\ params.filters = <<[key |-> Key("archived"), value |-> Bool(FALSE)]>>
    /\ params.perPage = Num(5)
    /\ params.page = Num(2)
    /\ outbound.endpoint
         = <<"/", "projects", "?", "a", "r", "c", "h", "i", "v", "e", "d", "=",
             "false", "&", "per_page", "=", "5", "&", "page", "=", "2">>

====
